---- MODULE Spec2Model ----
(***************************************************************************)
(* A model of fremen's scan engine: the vulnerability database (package    *)
(* database), the task collector and the worker pool / aggregator of       *)
(* ExecuteScan (package scanner), the outcome of the lockfile parsers      *)
(* (package parser), the summary and exit code of the reports (package     *)
(* report) and runRoot (package main).                                     *)
(*                                                                         *)
(* Strings that the code inspects character by character (database lines)  *)
(* are sequences of one-character strings.  Filesystem paths are clean     *)
(* absolute paths, written as the sequence of their components.            *)
(***************************************************************************)
EXTENDS Integers, Sequences, FiniteSets, TLC

VARIABLES
    \* ---- package database
    dbFile,       \* lines of the database file "db.txt" on disk
    entries,      \* VulnerabilityDatabase.entries : name -> set of versions
    loadedPath,   \* VulnerabilityDatabase.loadedPath
    entryCount,   \* VulnerabilityDatabase.entryCount
    loadErr,      \* what the last Load returned ("none" before any call)
    loads,        \* number of Load calls made so far
    skipped,      \* history: number of Load calls that returned at line 45
    \* ---- package scanner, ExecuteScan
    cfg,          \* ScanConfig
    fault,        \* per lockfile path: how reading it fails, if at all
    pc,           \* position of the goroutine that called ExecuteScan
    tasks,        \* []scanTask collected from cfg.TargetPaths
    errs,         \* the errs slice shared by the caller and the workers
    sent,         \* number of tasks the feeder goroutine has sent on jobs
    jobsClosed,   \* close(jobs) has happened
    wpc,          \* position of each worker goroutine
    wjob,         \* index in tasks of the job a worker holds (0: none)
    wres,         \* the scanResultItem a worker is about to send
    wold,         \* the value of errs a worker read before its append
    resultsClosed,\* close(jobResults) has happened
    byProject,    \* scanResultItemsByProject : dir -> projectEntry
    projects,     \* first-seen order of project directories
    scanResults,  \* the []ScanResult returned
    retErr,       \* the entries of the joined error returned
    recvCount,    \* history: how often task i was received from jobs
    aggCount,     \* history: how many records of task i were aggregated
    \* ---- package main, runRoot, and package report
    rpc,          \* position of runRoot ("off": the program is not run)
    flagJSON,     \* --json
    flagFullReport, \* --full-report
    flagExclude,  \* --exclude
    flagDatabase, \* --database
    stdoutOk,     \* writes to the standard output succeed
    exitCode,     \* the code the process exited with (-1: still running)
    rendered,     \* the report printed: "none", "json" or "cli"
    displayResults, \* the results the report lists
    summary,      \* the Summary of the report
    \* ---- package parser, on the text of a lockfile
    lockKind,     \* what reads the text: "off", "key", "pnpm" or "yarn"
    lockLines,    \* the lines of the text, without their line ends
    parsed        \* what was made of the text

dbVars == <<dbFile, entries, loadedPath, entryCount, loadErr, loads, skipped>>
scanVars == <<cfg, fault, pc, tasks, errs, sent, jobsClosed, wpc, wjob, wres,
              wold, resultsClosed, byProject, projects, scanResults, retErr,
              recvCount, aggCount>>
runVars == <<rpc, flagJSON, flagFullReport, flagExclude, flagDatabase, stdoutOk, exitCode,
             rendered, displayResults, summary>>
textVars == <<lockKind, lockLines, parsed>>
vars == <<dbVars, scanVars, runVars, textVars>>

(***************************************************************************)
(* Bounds of the model.                                                    *)
(***************************************************************************)
MaxLineLen == 3   \* longest enumerated line of the database file
MaxLoads == 2     \* Load calls per behaviour
MaxTargets == 2   \* longest cfg.TargetPaths enumerated for the collector
NumCPU == 4       \* runtime.NumCPU() of the host
MaxKeyLen == 3    \* longest pnpm key enumerated character by character
MaxSuffixLen == 2 \* longest peer-dependency suffix enumerated

(***************************************************************************)
(* Strings as character sequences.                                         *)
(***************************************************************************)
Chars == {"p", "P", ":", " "}

AllLines == UNION {[1..n -> Chars] : n \in 0..MaxLineLen}

\* strings.TrimSpace
TrimSpace(s) ==
    LET ns == {i \in 1..Len(s) : s[i] # " "}
    IN  IF ns = {} THEN <<>>
        ELSE SubSeq(s, CHOOSE i \in ns : \A j \in ns : i <= j,
                       CHOOSE i \in ns : \A j \in ns : i >= j)

\* strings.IndexByte, 0-based as in Go; -1 when the byte does not occur
IndexByte(s, c) ==
    LET at == {i \in 1..Len(s) : s[i] = c}
    IN  IF at = {} THEN -1 ELSE (CHOOSE i \in at : \A j \in at : i <= j) - 1

\* strings.HasPrefix(line, "#")
IsComment(line) == Len(line) > 0 /\ line[1] = "#"

NoEntry == [name |-> <<>>, version |-> <<>>, ok |-> FALSE]

\* parseEntry: "name:version", split at the first colon
parseEntry(line) ==
    LET idx == IndexByte(line, ":")
    IN  IF idx <= 0 \/ idx >= Len(line) - 1 THEN NoEntry
        ELSE LET name == TrimSpace(SubSeq(line, 1, idx))
                 version == TrimSpace(SubSeq(line, idx + 2, Len(line)))
             IN  IF name = <<>> \/ version = <<>> THEN NoEntry
                 ELSE [name |-> name, version |-> version, ok |-> TRUE]

(***************************************************************************)
(* package database                                                        *)
(***************************************************************************)
\* The database files on disk.  "db.txt" holds the enumerated content; the
\* other paths exercise the remaining outcomes of os.Open and of the scanner.
ExeDatabase == "exe/database.txt"
CwdDatabase == "database.txt"

SampleTails ==
    { <<>>,
      << <<"#", "p", ":", "1">>, <<" ", "p", " ", ":", " ", "1", " ">> >>,
      << <<"p", ":", "1", ":", "2">>, <<"p", ":", "P">>, <<"p", ":", "P">> >> }

Disk(path) ==
    CASE path = "db.txt"      -> [status |-> "ok", lines |-> dbFile]
      [] path = "alt.txt"     -> [status |-> "ok",
                                  lines |-> << <<"q", ":", "2">> >>]
      [] path = ExeDatabase   -> [status |-> "ok",
                                  lines |-> << <<"e", ":", "9">>, <<>> >>]
      [] path = "broken.txt"  -> [status |-> "readerr",
                                  lines |-> << <<"b", ":", "3">> >>]
      [] path = "denied.txt"  -> [status |-> "denied", lines |-> <<>>]
      [] OTHER                -> [status |-> "missing", lines |-> <<>>]

LoadArgs == {"", "db.txt", "alt.txt", "broken.txt", "denied.txt", "missing.txt"}

\* Load, lines 34-41: the default path is database.txt beside the executable,
\* or in the working directory when os.Executable fails.
ResolvePath(path, exeErr) ==
    IF path = "" THEN (IF exeErr THEN CwdDatabase ELSE ExeDatabase) ELSE path

\* Load, lines 73-82: record one parsed entry
StoreEntry(acc, name, version) ==
    LET versions == IF name \in DOMAIN acc.entries THEN acc.entries[name] ELSE {}
    IN  [entries |-> [k \in DOMAIN acc.entries \cup {name} |->
                        IF k = name THEN versions \cup {version} ELSE acc.entries[k]],
         count |-> IF version \in versions THEN acc.count ELSE acc.count + 1]

\* make(map[string]map[string]struct{})
EmptyMap == [k \in {} |-> {}]

\* Load, lines 61-83: the scanner loop over the first n lines
RECURSIVE ScanLines(_, _)
ScanLines(lines, n) ==
    IF n = 0 THEN [entries |-> EmptyMap, count |-> 0]
    ELSE LET acc == ScanLines(lines, n - 1)
             line == TrimSpace(lines[n])
             e == parseEntry(line)
         IN  IF line = <<>> \/ IsComment(line) THEN acc
             ELSE IF ~e.ok THEN acc
             ELSE StoreEntry(acc, e.name, e.version)

IsInfectedFoldCase(name, version) ==
    LET Lower(s) == [i \in 1..Len(s) |-> IF s[i] = "P" THEN "p" ELSE s[i]]
    IN  /\ Len(name) # 0 /\ Len(version) # 0
        /\ \E k \in DOMAIN entries :
              /\ Lower(k) = Lower(name)
              /\ \E w \in entries[k] : Lower(w) = Lower(version)

\* IsInfected
IsInfected(name, version) ==
    IF Len(name) = 0 \/ Len(version) = 0 THEN FALSE
    ELSE IF name \notin DOMAIN entries THEN FALSE
    ELSE version \in entries[name]

LoadAtResetOnReload(path, exeErr) ==
    LET p == ResolvePath(path, exeErr)
        f == Disk(p)
        new == ScanLines(f.lines, Len(f.lines))
    IN  IF f.status = "missing"
        THEN /\ loadErr' = "database not found"
             /\ UNCHANGED <<entries, loadedPath, entryCount, skipped>>
        ELSE IF f.status = "denied"
        THEN /\ loadErr' = "failed to open database"
             /\ UNCHANGED <<entries, loadedPath, entryCount, skipped>>
        ELSE IF loadedPath = p
        THEN /\ entries' = EmptyMap
             /\ loadErr' = "nil"
             /\ skipped' = skipped + 1
             /\ UNCHANGED <<loadedPath, entryCount>>
        ELSE IF f.status = "readerr"
        THEN /\ loadErr' = "error while reading database"
             /\ UNCHANGED <<entries, loadedPath, entryCount, skipped>>
        ELSE /\ entries' = new.entries
             /\ loadedPath' = p
             /\ entryCount' = new.count
             /\ loadErr' = "nil"
             /\ UNCHANGED skipped

LoadAtCommitsAsRead(path, exeErr) ==
    LET p == ResolvePath(path, exeErr)
        f == Disk(p)
        new == ScanLines(f.lines, Len(f.lines))
        merged == [k \in DOMAIN entries \cup DOMAIN new.entries |->
                     (IF k \in DOMAIN entries THEN entries[k] ELSE {})
                     \cup (IF k \in DOMAIN new.entries THEN new.entries[k] ELSE {})]
    IN  IF loadedPath = p
        THEN /\ loadErr' = "nil"
             /\ skipped' = skipped + 1
             /\ UNCHANGED <<entries, loadedPath, entryCount>>
        ELSE IF f.status = "missing"
        THEN /\ loadErr' = "database not found"
             /\ UNCHANGED <<entries, loadedPath, entryCount, skipped>>
        ELSE IF f.status = "denied"
        THEN /\ loadErr' = "failed to open database"
             /\ UNCHANGED <<entries, loadedPath, entryCount, skipped>>
        ELSE /\ entries' = merged
             /\ loadedPath' = p
             /\ entryCount' = entryCount + new.count
             /\ loadErr' = IF f.status = "readerr"
                            THEN "error while reading database" ELSE "nil"
             /\ UNCHANGED skipped

\* Load, lines 34-93: what the call does to the database and what it
\* returns; exeErr tells whether os.Executable fails
LoadAt(path, exeErr) ==
    LET p == ResolvePath(path, exeErr)
        f == Disk(p)
        new == ScanLines(f.lines, Len(f.lines))
    IN  IF loadedPath = p
        THEN /\ loadErr' = "nil"
             /\ skipped' = skipped + 1
             /\ UNCHANGED <<entries, loadedPath, entryCount>>
        ELSE IF f.status = "missing"
        THEN /\ loadErr' = "database not found"
             /\ UNCHANGED <<entries, loadedPath, entryCount, skipped>>
        ELSE IF f.status = "denied"
        THEN /\ loadErr' = "failed to open database"
             /\ UNCHANGED <<entries, loadedPath, entryCount, skipped>>
        ELSE IF f.status = "readerr"
        THEN /\ loadErr' = "error while reading database"
             /\ UNCHANGED <<entries, loadedPath, entryCount, skipped>>
        ELSE /\ entries' = new.entries
             /\ loadedPath' = p
             /\ entryCount' = new.count
             /\ loadErr' = "nil"
             /\ UNCHANGED skipped

\* Load
Load(path) ==
    /\ loads < MaxLoads
    /\ loads' = loads + 1
    /\ \E exeErr \in BOOLEAN : LoadAt(path, exeErr)
    /\ UNCHANGED <<dbFile, scanVars, runVars>>
    /\ UNCHANGED textVars

(***************************************************************************)
(* The filesystem scanned.  A path is the sequence of its components;      *)
(* Kids(dir) lists the entries of a directory sorted by name, as           *)
(* os.ReadDir returns them.                                                *)
(***************************************************************************)
D(n) == [name |-> n, dir |-> TRUE]
F(n) == [name |-> n, dir |-> FALSE]

Kids(path) ==
    CASE path = <<>> -> << D("r") >>
      [] path = <<"r">> ->
            << D(".git"), D("Node_Modules"), F("README.md"), D("custom_exclude"),
               D("locked"), D("node_modules"), F("package-lock.json"), D("sub"),
               F("yarn.lock") >>
      [] path = <<"r", ".git">> -> << F("yarn.lock") >>
      [] path = <<"r", "Node_Modules">> -> << F("package-lock.json") >>
      [] path = <<"r", "custom_exclude">> -> << F("package-lock.json") >>
      [] path = <<"r", "locked">> -> << F("yarn.lock") >>
      [] path = <<"r", "node_modules">> -> << F("yarn.lock") >>
      [] path = <<"r", "sub">> -> << D("deep"), F("pnpm-lock.yaml") >>
      [] path = <<"r", "sub", "deep">> -> << F("notes.txt"), F("yarn.lock") >>
      [] OTHER -> << >>

\* directories whose os.ReadDir fails (permission denied)
Unreadable == { <<"r", "locked">> }

Base(path) == path[Len(path)]
Dir(path) == SubSeq(path, 1, Len(path) - 1)
Join(dir, name) == Append(dir, name)

RECURSIVE Lookup(_)
\* os.Stat: "dir", "file" or "none"
Lookup(path) ==
    IF path = <<>> THEN "dir"
    ELSE IF Lookup(Dir(path)) # "dir" \/ Dir(path) \in Unreadable THEN "none"
    ELSE LET ks == Kids(Dir(path))
             hit == {i \in 1..Len(ks) : ks[i].name = Base(path)}
         IN  IF hit = {} THEN "none"
             ELSE IF ks[CHOOSE i \in hit : TRUE].dir THEN "dir" ELSE "file"

(***************************************************************************)
(* package scanner: the task collector                                     *)
(***************************************************************************)
\* parser.LockfileParsers
LockfileParsers ==
    [n \in {"package-lock.json", "yarn.lock", "pnpm-lock.yaml"} |->
        CASE n = "package-lock.json" -> "npm"
          [] n = "yarn.lock" -> "yarn"
          [] OTHER -> "pnpm"]

isLockfileAnyFile(name) == name # ""

isLockfile(name) == name \in DOMAIN LockfileParsers

\* The exclusion patterns considered.  "component" is a regular expression
\* such as (^|/)word(/|$), which matches a path having word as a component;
\* "last" is /word$, which matches a path whose last component is word.
NoRegex == [kind |-> "nil", word |-> ""]
Component(w) == [kind |-> "component", word |-> w]
Last(w) == [kind |-> "last", word |-> w]

\* cfg.ExcludeRegex.MatchString(path)
MatchString(re, path) ==
    CASE re.kind = "component" -> \E i \in 1..Len(path) : path[i] = re.word
      [] re.kind = "last" -> Len(path) > 0 /\ path[Len(path)] = re.word
      [] OTHER -> FALSE

\* Unicode case folding of the names that occur in the filesystem
Fold(name) ==
    CASE name = "Node_Modules" -> "node_modules"
      [] name = "README.md" -> "readme.md"
      [] OTHER -> name

\* strings.EqualFold
EqualFold(a, b) == Fold(a) = Fold(b)

isExcludedDirNodeModulesOnly(c, dirName) ==
    ~c.IncludeNodeModules /\ EqualFold(dirName, "node_modules")

\* isExcludedDir
isExcludedDir(c, dirName) ==
    \/ ~c.IncludeNodeModules /\ EqualFold(dirName, "node_modules")
    \/ ~c.IncludeGit /\ EqualFold(dirName, ".git")

Task(dir, lockfile) == [Dir |-> dir, Lockfile |-> lockfile]

VisitAlwaysDescend(c, base, path, isDir, walkErr, acc) ==
    IF walkErr
    THEN [ret |-> "nil", acc |-> [acc EXCEPT !.errs = Append(@, <<"walk", base>>)]]
    ELSE IF c.ExcludeRegex # NoRegex /\ MatchString(c.ExcludeRegex, path)
    THEN [ret |-> IF isDir THEN "SkipDir" ELSE "nil", acc |-> acc]
    ELSE IF isDir
    THEN IF isExcludedDir(c, Base(path)) THEN [ret |-> "SkipDir", acc |-> acc]
         ELSE [ret |-> "nil", acc |-> acc]
    ELSE IF isLockfile(Base(path))
    THEN [ret |-> "nil",
          acc |-> [acc EXCEPT !.tasks = Append(@, Task(Dir(path), Base(path)))]]
    ELSE [ret |-> "nil", acc |-> acc]

VisitRootNeverSkipped(c, base, path, isDir, walkErr, acc) ==
    IF walkErr
    THEN [ret |-> "nil", acc |-> [acc EXCEPT !.errs = Append(@, <<"walk", base>>)]]
    ELSE IF c.ExcludeRegex # NoRegex /\ MatchString(c.ExcludeRegex, path)
    THEN [ret |-> IF isDir THEN "SkipDir" ELSE "nil", acc |-> acc]
    ELSE IF isDir
    THEN IF path # base /\ ~c.Recursive THEN [ret |-> "SkipDir", acc |-> acc]
         ELSE IF path # base /\ isExcludedDir(c, Base(path))
         THEN [ret |-> "SkipDir", acc |-> acc]
         ELSE [ret |-> "nil", acc |-> acc]
    ELSE IF isLockfile(Base(path))
    THEN [ret |-> "nil",
          acc |-> [acc EXCEPT !.tasks = Append(@, Task(Dir(path), Base(path)))]]
    ELSE [ret |-> "nil", acc |-> acc]

\* collectTasksForPath, lines 325-356: the WalkDir callback.  acc holds the
\* tasks and walkErrors collected so far.
Visit(c, base, path, isDir, walkErr, acc) ==
    IF walkErr
    THEN [ret |-> "nil", acc |-> [acc EXCEPT !.errs = Append(@, <<"walk", base>>)]]
    ELSE IF c.ExcludeRegex # NoRegex /\ MatchString(c.ExcludeRegex, path)
    THEN [ret |-> IF isDir THEN "SkipDir" ELSE "nil", acc |-> acc]
    ELSE IF isDir
    THEN IF path # base /\ ~c.Recursive THEN [ret |-> "SkipDir", acc |-> acc]
         ELSE IF isExcludedDir(c, Base(path)) THEN [ret |-> "SkipDir", acc |-> acc]
         ELSE [ret |-> "nil", acc |-> acc]
    ELSE IF isLockfile(Base(path))
    THEN [ret |-> "nil",
          acc |-> [acc EXCEPT !.tasks = Append(@, Task(Dir(path), Base(path)))]]
    ELSE [ret |-> "nil", acc |-> acc]

RECURSIVE walkDir(_, _, _, _, _)
RECURSIVE walkKids(_, _, _, _, _, _)

\* filepath.walkDir of the Go standard library: the callback on the path
\* itself, then on the error of ReadDir if any, then on each entry in order.
walkDir(c, base, path, isDir, acc) ==
    LET v == Visit(c, base, path, isDir, FALSE, acc)
    IN  IF v.ret # "nil" \/ ~isDir
        THEN [ret |-> IF v.ret = "SkipDir" /\ isDir THEN "nil" ELSE v.ret, acc |-> v.acc]
        ELSE IF path \in Unreadable
        THEN LET e == Visit(c, base, path, isDir, TRUE, v.acc)
             IN  [ret |-> IF e.ret = "SkipDir" THEN "nil" ELSE e.ret, acc |-> e.acc]
        ELSE walkKids(c, base, path, Kids(path), 1, v.acc)

walkKids(c, base, path, kids, i, acc) ==
    IF i > Len(kids) THEN [ret |-> "nil", acc |-> acc]
    ELSE LET r == walkDir(c, base, Join(path, kids[i].name), kids[i].dir, acc)
         IN  IF r.ret = "SkipDir" THEN [ret |-> "nil", acc |-> r.acc]
             ELSE walkKids(c, base, path, kids, i + 1, r.acc)

\* collectTasksForPath: [tasks, errs] for one target path
collectTasksForPath(c, path) ==
    LET kind == Lookup(path)
    IN  IF kind = "none" THEN [tasks |-> <<>>, errs |-> << <<"stat", path>> >>]
        ELSE IF kind = "file"
        THEN IF isLockfile(Base(path))
             THEN [tasks |-> << Task(Dir(path), Base(path)) >>, errs |-> <<>>]
             ELSE [tasks |-> <<>>, errs |-> <<>>]
        ELSE LET w == walkDir(c, path, path, TRUE, [tasks |-> <<>>, errs |-> <<>>]).acc
             IN  IF Len(w.errs) > 0
                 THEN [tasks |-> w.tasks, errs |-> << <<"join", w.errs>> >>]
                 ELSE [tasks |-> w.tasks, errs |-> <<>>]

RECURSIVE collectAllFailFast(_, _)
collectAllFailFast(c, n) ==
    IF n = 0 THEN [tasks |-> <<>>, errs |-> <<>>]
    ELSE LET acc == collectAllFailFast(c, n - 1)
             found == collectTasksForPath(c, c.TargetPaths[n])
         IN  IF Len(acc.errs) > 0 THEN acc
             ELSE IF Len(found.errs) > 0 THEN [tasks |-> <<>>, errs |-> found.errs]
             ELSE [tasks |-> acc.tasks \o found.tasks, errs |-> acc.errs]

RECURSIVE collectAll(_, _)
\* ExecuteScan, lines 176-184, over the first n target paths
collectAll(c, n) ==
    IF n = 0 THEN [tasks |-> <<>>, errs |-> <<>>]
    ELSE LET acc == collectAll(c, n - 1)
             found == collectTasksForPath(c, c.TargetPaths[n])
         IN  [tasks |-> acc.tasks \o found.tasks, errs |-> acc.errs \o found.errs]

(***************************************************************************)
(* package parser.  The content of a lockfile is the list of (name,        *)
(* version) candidates its text holds: for package-lock.json the entries   *)
(* of the "dependencies" and of the "packages" object, for yarn.lock and   *)
(* pnpm-lock.yaml the candidates in file order.                            *)
(***************************************************************************)
V(n, v) == [PackageName |-> n, Version |-> v]

\* the package names and versions that occur in the lockfiles
PkgEvil == <<"e", "v", "i", "l">>
PkgEvilUpper == <<"E", "v", "i", "l">>
PkgBad == <<"b", "a", "d">>
PkgGood == <<"g", "o", "o", "d">>
Ver100 == <<"1", ".", "0", ".", "0">>
Ver200 == <<"2", ".", "0", ".", "0">>

Content(path) ==
    CASE path = <<"r", "package-lock.json">> ->
            [deps |-> << V(PkgEvil, Ver100), V(PkgBad, Ver200) >>,
             pkgs |-> << V(PkgEvil, Ver100), V(PkgGood, Ver100) >>, cands |-> <<>>]
      [] path = <<"r", "yarn.lock">> ->
            [deps |-> <<>>, pkgs |-> <<>>,
             cands |-> << V(PkgEvil, Ver100), V(PkgEvilUpper, Ver100) >>]
      [] path = <<"r", "sub", "pnpm-lock.yaml">> ->
            [deps |-> <<>>, pkgs |-> <<>>,
             cands |-> << V(PkgBad, Ver200), V(PkgEvil, Ver100), V(PkgBad, Ver200) >>]
      [] path = <<"r", "sub", "deep", "yarn.lock">> ->
            [deps |-> <<>>, pkgs |-> <<>>, cands |-> << V(PkgGood, Ver100) >>]
      [] path = <<"r", "custom_exclude", "package-lock.json">> ->
            [deps |-> << V(PkgBad, Ver200), V(PkgEvil, <<>>) >>, pkgs |-> <<>>,
             cands |-> <<>>]
      [] OTHER ->
            [deps |-> << V(PkgEvil, Ver100) >>, pkgs |-> <<>>,
             cands |-> << V(PkgEvil, Ver100) >>]

\* lines of a pnpm-lock.yaml the scanner delivers before a read error
ReadErrAt(path) == IF Len(Content(path).cands) > 0 THEN 1 ELSE 0

\* how reading a lockfile fails: not at all, on open, part-way through the
\* read, or by content that is not in the format
Faults == {"none", "open", "read", "syntax"}

\* the database ExecuteScan is given
ScanDatabase == (PkgEvil :> {Ver100}) @@ (PkgBad :> {Ver200})

\* the orders in which a Go map with these entries can be ranged over
Orders(seq) ==
    LET n == Len(seq)
        perms == {f \in [1..n -> 1..n] : \A i, j \in 1..n : f[i] = f[j] => i = j}
    IN  {[i \in 1..n |-> seq[f[i]]] : f \in perms}

RECURSIVE Infected(_)
\* the candidates of seq the database flags, in order
Infected(seq) ==
    IF seq = <<>> THEN <<>>
    ELSE LET rest == Infected(Tail(seq))
         IN  IF IsInfected(Head(seq).PackageName, Head(seq).Version)
             THEN <<Head(seq)>> \o rest ELSE rest

Outcome(issues, err) == [issues |-> issues, err |-> err]

parseNpmLockfileLenient(path, f) ==
    IF f \in {"open", "read"} THEN { Outcome(<<>>, TRUE) }
    ELSE IF f = "syntax"
    THEN { Outcome(Infected(d), FALSE) : d \in Orders(Content(path).deps) }
    ELSE { Outcome(Infected(d) \o Infected(p), FALSE) :
             d \in Orders(Content(path).deps), p \in Orders(Content(path).pkgs) }

\* parseNpmLockfile: the possible (issues, err)
parseNpmLockfile(path, f) ==
    IF f \in {"open", "read", "syntax"} THEN { Outcome(<<>>, TRUE) }
    ELSE { Outcome(Infected(d) \o Infected(p), FALSE) :
             d \in Orders(Content(path).deps), p \in Orders(Content(path).pkgs) }

\* parseYarnLockfile
parseYarnLockfile(path, f) ==
    IF f \in {"open", "read"} THEN { Outcome(<<>>, TRUE) }
    ELSE IF f = "syntax" THEN { Outcome(<<>>, FALSE) }
    ELSE { Outcome(Infected(Content(path).cands), FALSE) }

\* parsePnpmLockfile
parsePnpmLockfile(path, f) ==
    IF f = "open" THEN { Outcome(<<>>, TRUE) }
    ELSE IF f = "read"
    THEN { Outcome(Infected(SubSeq(Content(path).cands, 1, ReadErrAt(path))), TRUE) }
    ELSE IF f = "syntax" THEN { Outcome(<<>>, FALSE) }
    ELSE { Outcome(Infected(Content(path).cands), FALSE) }

\* parserFn(fullPath, db) for the parser registered under the lockfile name
parserFn(lockfile, path, f) ==
    CASE LockfileParsers[lockfile] = "npm" -> parseNpmLockfile(path, f)
      [] LockfileParsers[lockfile] = "yarn" -> parseYarnLockfile(path, f)
      [] OTHER -> parsePnpmLockfile(path, f)

(***************************************************************************)
(* package scanner: ExecuteScan                                            *)
(***************************************************************************)
minWorkers == 4

\* workerCount
workerCount == IF NumCPU < minWorkers THEN minWorkers ELSE NumCPU

Workers == 1..workerCount

NoItem == [Dir |-> <<>>, Lockfile |-> "", Issues |-> <<>>]
FullPath(t) == Join(t.Dir, t.Lockfile)

\* slices.Contains
Contains(seq, x) == \E i \in 1..Len(seq) : seq[i] = x

RECURSIVE deduplicateFrom(_, _)
\* deduplicateVulnerabilities, lines 378-389: the loop with the keys seen so far
deduplicateFrom(items, seen) ==
    IF items = <<>> THEN <<>>
    ELSE LET v == Head(items)
             key == <<v.PackageName, v.Version>>
         IN  IF key \in seen THEN deduplicateFrom(Tail(items), seen)
             ELSE <<v>> \o deduplicateFrom(Tail(items), seen \cup {key})

deduplicateNothing(items) == items

\* deduplicateVulnerabilities
deduplicateVulnerabilities(items) == deduplicateFrom(items, {})

groupKeepLastIssues(bp, r) ==
    LET old == IF r.Dir \in DOMAIN bp THEN bp[r.Dir]
               ELSE [Lockfiles |-> <<>>, Issues |-> <<>>]
    IN  [Lockfiles |-> IF Contains(old.Lockfiles, r.Lockfile) THEN old.Lockfiles
                       ELSE Append(old.Lockfiles, r.Lockfile),
         Issues |-> r.Issues]

groupSkipEmpty(bp, r) ==
    LET old == IF r.Dir \in DOMAIN bp THEN bp[r.Dir]
               ELSE [Lockfiles |-> <<>>, Issues |-> <<>>]
    IN  [Lockfiles |-> IF Contains(old.Lockfiles, r.Lockfile) \/ Len(r.Issues) = 0
                       THEN old.Lockfiles
                       ELSE Append(old.Lockfiles, r.Lockfile),
         Issues |-> old.Issues \o r.Issues]

groupRepeatLockfile(bp, r) ==
    LET old == IF r.Dir \in DOMAIN bp THEN bp[r.Dir]
               ELSE [Lockfiles |-> <<>>, Issues |-> <<>>]
    IN  [Lockfiles |-> Append(old.Lockfiles, r.Lockfile),
         Issues |-> IF Len(r.Issues) > 0 THEN old.Issues \o r.Issues ELSE old.Issues]

\* ExecuteScan, lines 238-251: the projectEntry of r.Dir after grouping r
group(bp, r) ==
    LET old == IF r.Dir \in DOMAIN bp THEN bp[r.Dir]
               ELSE [Lockfiles |-> <<>>, Issues |-> <<>>]
    IN  [Lockfiles |-> IF Contains(old.Lockfiles, r.Lockfile) THEN old.Lockfiles
                       ELSE Append(old.Lockfiles, r.Lockfile),
         Issues |-> IF Len(r.Issues) > 0 THEN old.Issues \o r.Issues ELSE old.Issues]

RECURSIVE buildResults(_, _)
\* ExecuteScan, lines 255-267
buildResults(ps, bp) ==
    IF ps = <<>> THEN <<>>
    ELSE LET entry == bp[Head(ps)]
         IN  IF Len(entry.Lockfiles) = 0 THEN buildResults(Tail(ps), bp)
             ELSE << [ProjectPath |-> Head(ps),
                      Lockfiles |-> entry.Lockfiles,
                      InfectedPackages |-> deduplicateVulnerabilities(entry.Issues)] >>
                  \o buildResults(Tail(ps), bp)

Zeros(n) == [i \in 1..n |-> 0]

\* ExecuteScan, lines 176-231: collect the tasks; return at once when there
\* are none, else start the workers, the feeder and the closer.
CollectTasks ==
    /\ pc = "collect"
    /\ LET r == collectAll(cfg, Len(cfg.TargetPaths))
       IN  /\ tasks' = r.tasks
           /\ errs' = r.errs
           /\ recvCount' = Zeros(Len(r.tasks))
           /\ aggCount' = Zeros(Len(r.tasks))
           /\ IF Len(r.tasks) = 0
              THEN /\ pc' = "done"
                   /\ retErr' = r.errs
                   /\ UNCHANGED wpc
              ELSE /\ pc' = "aggregate"
                   /\ wpc' = [w \in Workers |-> "recv"]
                   /\ UNCHANGED retErr
    /\ UNCHANGED <<runVars, dbVars, cfg, fault, sent, jobsClosed, wjob, wres, wold,
                   resultsClosed, byProject, projects, scanResults>>
    /\ UNCHANGED textVars

DispatchTwice(w) ==
    /\ pc = "aggregate"
    /\ sent < Len(tasks)
    /\ wpc[w] = "recv"
    /\ sent' = IF recvCount[sent + 1] = 0 THEN sent ELSE sent + 1
    /\ wjob' = [wjob EXCEPT ![w] = sent + 1]
    /\ wpc' = [wpc EXCEPT ![w] = "parse"]
    /\ recvCount' = [recvCount EXCEPT ![sent + 1] = @ + 1]
    /\ UNCHANGED <<runVars, dbVars, cfg, fault, pc, tasks, errs, jobsClosed, wres, wold,
                   resultsClosed, byProject, projects, scanResults, retErr, aggCount>>
    /\ UNCHANGED textVars

\* the feeder's "jobs <- t" meeting worker w's "range jobs"
Dispatch(w) ==
    /\ pc = "aggregate"
    /\ sent < Len(tasks)
    /\ wpc[w] = "recv"
    /\ sent' = sent + 1
    /\ wjob' = [wjob EXCEPT ![w] = sent + 1]
    /\ wpc' = [wpc EXCEPT ![w] = "parse"]
    /\ recvCount' = [recvCount EXCEPT ![sent + 1] = @ + 1]
    /\ UNCHANGED <<runVars, dbVars, cfg, fault, pc, tasks, errs, jobsClosed, wres, wold,
                   resultsClosed, byProject, projects, scanResults, retErr, aggCount>>
    /\ UNCHANGED textVars

CloseJobsNever ==
    /\ pc = "aggregate"
    /\ sent = Len(tasks)
    /\ ~jobsClosed
    /\ UNCHANGED vars
    /\ UNCHANGED textVars

\* the feeder's close(jobs)
CloseJobs ==
    /\ pc = "aggregate"
    /\ sent = Len(tasks)
    /\ ~jobsClosed
    /\ jobsClosed' = TRUE
    /\ UNCHANGED <<runVars, dbVars, cfg, fault, pc, tasks, errs, sent, wpc, wjob, wres, wold,
                   resultsClosed, byProject, projects, scanResults, retErr,
                   recvCount, aggCount>>
    /\ UNCHANGED textVars

\* worker, lines 201-210 up to the read of errs that append starts with
Parse(w) ==
    /\ wpc[w] = "parse"
    /\ LET job == tasks[wjob[w]]
       IN  IF job.Lockfile \notin DOMAIN LockfileParsers
           THEN /\ wpc' = [wpc EXCEPT ![w] = "recv"]
                /\ wjob' = [wjob EXCEPT ![w] = 0]
                /\ UNCHANGED <<wres, wold>>
           ELSE \E o \in parserFn(job.Lockfile, FullPath(job), fault[FullPath(job)]) :
                /\ wres' = [wres EXCEPT ![w] = [Dir |-> job.Dir,
                                                Lockfile |-> job.Lockfile,
                                                Issues |-> o.issues]]
                /\ IF o.err
                   THEN /\ wold' = [wold EXCEPT ![w] = errs]
                        /\ wpc' = [wpc EXCEPT ![w] = "append"]
                   ELSE /\ wpc' = [wpc EXCEPT ![w] = "send"]
                        /\ UNCHANGED wold
                /\ UNCHANGED wjob
    /\ UNCHANGED <<runVars, dbVars, cfg, fault, pc, tasks, errs, sent, jobsClosed,
                   resultsClosed, byProject, projects, scanResults, retErr,
                   recvCount, aggCount>>
    /\ UNCHANGED textVars

\* worker, line 209: the write that completes errs = append(errs, ...).  No
\* lock orders it with the appends of the other workers.
AppendErr(w) ==
    /\ wpc[w] = "append"
    /\ errs' = Append(wold[w], <<"parse", FullPath(tasks[wjob[w]])>>)
    /\ wold' = [wold EXCEPT ![w] = <<>>]
    /\ wpc' = [wpc EXCEPT ![w] = "send"]
    /\ UNCHANGED <<runVars, dbVars, cfg, fault, pc, tasks, sent, jobsClosed, wjob, wres,
                   resultsClosed, byProject, projects, scanResults, retErr,
                   recvCount, aggCount>>
    /\ UNCHANGED textVars

\* worker w's "jobResults <- item" meeting the caller's "range jobResults",
\* with the loop body of lines 238-251
SendResult(w) ==
    /\ wpc[w] = "send"
    /\ pc = "aggregate"
    /\ LET r == wres[w]
       IN  /\ byProject' = [d \in DOMAIN byProject \cup {r.Dir} |->
                               IF d = r.Dir THEN group(byProject, r) ELSE byProject[d]]
           /\ projects' = IF r.Dir \in DOMAIN byProject THEN projects
                          ELSE Append(projects, r.Dir)
    /\ aggCount' = [aggCount EXCEPT ![wjob[w]] = @ + 1]
    /\ wpc' = [wpc EXCEPT ![w] = "recv"]
    /\ wjob' = [wjob EXCEPT ![w] = 0]
    /\ wres' = [wres EXCEPT ![w] = NoItem]
    /\ UNCHANGED <<runVars, dbVars, cfg, fault, pc, tasks, errs, sent, jobsClosed, wold,
                   resultsClosed, scanResults, retErr, recvCount>>
    /\ UNCHANGED textVars

\* worker: "range jobs" ends on the closed channel; wg.Done()
WorkerExit(w) ==
    /\ wpc[w] = "recv"
    /\ jobsClosed
    /\ wpc' = [wpc EXCEPT ![w] = "done"]
    /\ UNCHANGED <<runVars, dbVars, cfg, fault, pc, tasks, errs, sent, jobsClosed, wjob, wres,
                   wold, resultsClosed, byProject, projects, scanResults, retErr,
                   recvCount, aggCount>>
    /\ UNCHANGED textVars

\* the closer: wg.Wait(); close(jobResults)
CloseResults ==
    /\ pc = "aggregate"
    /\ \A w \in Workers : wpc[w] = "done"
    /\ ~resultsClosed
    /\ resultsClosed' = TRUE
    /\ UNCHANGED <<runVars, dbVars, cfg, fault, pc, tasks, errs, sent, jobsClosed, wpc, wjob,
                   wres, wold, byProject, projects, scanResults, retErr,
                   recvCount, aggCount>>
    /\ UNCHANGED textVars

FinishErrorOnly ==
    /\ pc = "aggregate"
    /\ resultsClosed
    /\ scanResults' = IF Len(errs) > 0 THEN <<>> ELSE buildResults(projects, byProject)
    /\ retErr' = errs
    /\ pc' = "done"
    /\ UNCHANGED <<runVars, dbVars, cfg, fault, tasks, errs, sent, jobsClosed, wpc, wjob, wres,
                   wold, resultsClosed, byProject, projects, recvCount, aggCount>>
    /\ UNCHANGED textVars

FinishWithoutWaiting ==
    /\ pc = "aggregate"
    /\ sent = Len(tasks)
    /\ scanResults' = buildResults(projects, byProject)
    /\ retErr' = errs
    /\ pc' = "done"
    /\ UNCHANGED <<runVars, dbVars, cfg, fault, tasks, errs, sent, jobsClosed, wpc, wjob, wres,
                   wold, resultsClosed, byProject, projects, recvCount, aggCount>>
    /\ UNCHANGED textVars

\* ExecuteScan, lines 254-269: "range jobResults" ends; deduplicate and return
Finish ==
    /\ pc = "aggregate"
    /\ resultsClosed
    /\ scanResults' = buildResults(projects, byProject)
    /\ retErr' = errs
    /\ pc' = "done"
    /\ UNCHANGED <<runVars, dbVars, cfg, fault, tasks, errs, sent, jobsClosed, wpc, wjob, wres,
                   wold, resultsClosed, byProject, projects, recvCount, aggCount>>
    /\ UNCHANGED textVars

(***************************************************************************)
(* package report                                                          *)
(***************************************************************************)
\* ScanResult.InfectedCount
InfectedCount(r) == Len(r.InfectedPackages)

\* strings.ToLower of a project path
ToLower(path) == [i \in DOMAIN path |-> Fold(path[i])]

\* the byte order of the lower-case directory names of the filesystem
NameRank ==
    [n \in {".git", "custom_exclude", "deep", "locked", "node_modules", "r", "sub"} |->
        CASE n = ".git" -> 1
          [] n = "custom_exclude" -> 2
          [] n = "deep" -> 3
          [] n = "locked" -> 4
          [] n = "node_modules" -> 5
          [] n = "r" -> 6
          [] OTHER -> 7]

\* a < b for two paths as strings: a is a proper prefix of b, or the names
\* at the first place where they differ are in byte order
PathLess(a, b) ==
    LET diff == {k \in 1..Len(a) : k <= Len(b) /\ a[k] # b[k]
                                    /\ \A j \in 1..(k - 1) : a[j] = b[j]}
    IN  \/ Len(a) < Len(b) /\ SubSeq(b, 1, Len(a)) = a
        \/ \E k \in diff : NameRank[a[k]] < NameRank[b[k]]

\* summarizeScanResults, lines 35-46: the less function of the sort
less(ri, rj) ==
    IF (InfectedCount(ri) > 0) # (InfectedCount(rj) > 0)
    THEN InfectedCount(ri) > 0
    ELSE PathLess(ToLower(ri.ProjectPath), ToLower(rj.ProjectPath))

\* sort.Slice, which is not stable: the orders of seq without an inversion
SortSlice(seq) ==
    LET n == Len(seq)
        perms == {f \in [1..n -> 1..n] : \A i, j \in 1..n : f[i] = f[j] => i = j}
    IN  {d \in {[i \in 1..n |-> seq[f[i]]] : f \in perms} :
            \A i, j \in 1..n : i < j => ~less(d[j], d[i])}

RECURSIVE SumInfected(_)
\* summarizeScanResults, line 28: totalInfected over the results
SumInfected(results) ==
    IF results = <<>> THEN 0
    ELSE InfectedCount(Head(results)) + SumInfected(Tail(results))

summarizeDisplayedOnly(results, showFull) ==
    LET shown(r) == showFull \/ InfectedCount(r) > 0
        kept == SelectSeq(results, shown)
        infected(r) == InfectedCount(r) > 0
    IN  {[display |-> d,
          summary |-> [TotalProjects |-> Len(kept),
                       InfectedProjects |-> Len(SelectSeq(kept, infected)),
                       TotalInfectedPackages |-> SumInfected(kept)]] :
            d \in SortSlice(kept)}

\* summarizeScanResults: the possible (displayResults, summary)
summarizeScanResults(results, showFull) ==
    LET shown(r) == showFull \/ InfectedCount(r) > 0
        infected(r) == InfectedCount(r) > 0
    IN  {[display |-> d,
          summary |-> [TotalProjects |-> Len(results),
                       InfectedProjects |-> Len(SelectSeq(results, infected)),
                       TotalInfectedPackages |-> SumInfected(results)]] :
            d \in SortSlice(SelectSeq(results, shown))}

\* PrintJSONReport, lines 61-67: the exit code
jsonExitCode(sum) ==
    IF sum.TotalProjects = 0 THEN 1
    ELSE IF sum.InfectedProjects > 0 THEN 1
    ELSE 0

cliExitCodeEmptyIsClean(sum) == IF sum.InfectedProjects = 0 THEN 0 ELSE 1

\* PrintCLIReport, lines 112-127: the exit code
cliExitCode(sum) ==
    IF sum.TotalProjects = 0 THEN 1
    ELSE IF sum.InfectedProjects = 0 THEN 0
    ELSE 1

(***************************************************************************)
(* package main: runRoot                                                   *)
(***************************************************************************)
\* the process exits with code c
Exit(c) ==
    /\ exitCode' = c
    /\ rpc' = "exited"

\* runRoot, lines 49-84: the flags; an exclusion pattern that does not
\* compile ends the run
RunParseFlags ==
    /\ rpc = "flags"
    /\ IF flagExclude = "("
       THEN Exit(1)
       ELSE rpc' = "load" /\ UNCHANGED exitCode
    /\ UNCHANGED <<dbVars, scanVars, flagJSON, flagFullReport, flagExclude,
                   flagDatabase, stdoutOk, rendered, displayResults, summary>>
    /\ UNCHANGED textVars

RunLoadIgnoreError ==
    /\ rpc = "load"
    /\ loads' = loads + 1
    /\ \E exeErr \in BOOLEAN : LoadAt(flagDatabase, exeErr)
    /\ rpc' = "scan"
    /\ pc' = "collect"
    /\ UNCHANGED <<dbFile, cfg, fault, tasks, errs, sent, jobsClosed, wpc, wjob, wres,
                   wold, resultsClosed, byProject, projects, scanResults, retErr,
                   recvCount, aggCount, exitCode,
                   flagJSON, flagFullReport, flagExclude, flagDatabase, stdoutOk,
                   rendered, displayResults, summary>>
    /\ UNCHANGED textVars

\* runRoot, lines 86-104: load the database; exit when that fails, else
\* call ExecuteScan
RunLoad ==
    /\ rpc = "load"
    /\ loads' = loads + 1
    /\ \E exeErr \in BOOLEAN : LoadAt(flagDatabase, exeErr)
    /\ IF loadErr' # "nil"
       THEN /\ Exit(1)
            /\ UNCHANGED pc
       ELSE /\ rpc' = "scan"
            /\ pc' = "collect"
            /\ UNCHANGED exitCode
    /\ UNCHANGED <<dbFile, cfg, fault, tasks, errs, sent, jobsClosed, wpc, wjob, wres,
                   wold, resultsClosed, byProject, projects, scanResults, retErr,
                   recvCount, aggCount,
                   flagJSON, flagFullReport, flagExclude, flagDatabase, stdoutOk,
                   rendered, displayResults, summary>>
    /\ UNCHANGED textVars

RunScanErrorThenReport ==
    /\ rpc = "scan"
    /\ pc = "done"
    /\ retErr # <<>>
    /\ \E r \in summarizeScanResults(scanResults, flagFullReport) :
          /\ displayResults' = r.display
          /\ summary' = r.summary
          /\ rendered' = IF flagJSON THEN "json" ELSE "cli"
    /\ Exit(1)
    /\ UNCHANGED <<dbVars, scanVars, flagJSON, flagFullReport, flagExclude,
                   flagDatabase, stdoutOk>>
    /\ UNCHANGED textVars

\* runRoot, lines 104-111: ExecuteScan returned an error
RunScanError ==
    /\ rpc = "scan"
    /\ pc = "done"
    /\ retErr # <<>>
    /\ Exit(1)
    /\ UNCHANGED <<dbVars, scanVars, flagJSON, flagFullReport, flagExclude,
                   flagDatabase, stdoutOk, rendered, displayResults, summary>>
    /\ UNCHANGED textVars

\* runRoot, lines 113-117, with PrintJSONReport and PrintCLIReport: the
\* report and the exit code it selects
RunReport ==
    /\ rpc = "scan"
    /\ pc = "done"
    /\ retErr = <<>>
    /\ \E s \in summarizeScanResults(scanResults, flagFullReport) :
          /\ displayResults' = s.display
          /\ summary' = s.summary
          /\ IF flagJSON
             THEN IF stdoutOk
                  THEN rendered' = "json" /\ Exit(jsonExitCode(s.summary))
                  ELSE rendered' = "none" /\ Exit(1)
             ELSE rendered' = "cli" /\ Exit(cliExitCode(s.summary))
    /\ UNCHANGED <<dbVars, scanVars, flagJSON, flagFullReport, flagExclude,
                   flagDatabase, stdoutOk>>
    /\ UNCHANGED textVars

(***************************************************************************)
(* Specifications                                                          *)
(***************************************************************************)
Cfg(targets, recursive, git, nm, re) ==
    [TargetPaths |-> targets, Recursive |-> recursive, IncludeGit |-> git,
     IncludeNodeModules |-> nm, ExcludeRegex |-> re]

\* what a parser returns, with the candidates it looked up in the database
Parsed(cands, issues, err) == [cands |-> cands, issues |-> issues, err |-> err]

\* no parser is applied to a text
TextOff ==
    /\ lockKind = "off"
    /\ lockLines = <<>>
    /\ parsed = Parsed(<<>>, <<>>, "pending")

(***************************************************************************)
(* package parser: the text of a pnpm-lock.yaml                            *)
(***************************************************************************)
WhiteSpace == {" ", "\t"}

\* \s of the patterns, within a line
IsSpace(ch) == ch \in WhiteSpace

\* ['"] of the patterns
IsQuote(ch) == ch \in {"'", "\""}

\* the last position of the longest run of characters of chars that starts
\* at position from (from - 1 when the run is empty)
RunOf(line, from, chars) ==
    LET stops == {i \in from..Len(line) : line[i] \notin chars}
    IN  IF stops = {} THEN Len(line)
        ELSE (CHOOSE i \in stops : \A j \in stops : i <= j) - 1

\* the same for the longest run of characters that are not in chars
RunNotOf(line, from, chars) ==
    LET stops == {i \in from..Len(line) : line[i] \in chars}
    IN  IF stops = {} THEN Len(line)
        ELSE (CHOOSE i \in stops : \A j \in stops : i <= j) - 1

pnpmIgnoredKeys ==
    { <<"r", "e", "s", "o", "l", "u", "t", "i", "o", "n">>,
      <<"e", "n", "g", "i", "n", "e", "s">>,
      <<"o", "s">>,
      <<"c", "p", "u">>,
      <<"p", "e", "e", "r", "D", "e", "p", "e", "n", "d", "e", "n", "c", "i", "e", "s">>,
      <<"d", "e", "p", "e", "n", "d", "e", "n", "c", "i", "e", "s">>,
      <<"o", "p", "t", "i", "o", "n", "a", "l", "D", "e", "p", "e", "n", "d", "e", "n", "c", "i", "e", "s">>,
      <<"d", "e", "v", "D", "e", "p", "e", "n", "d", "e", "n", "c", "i", "e", "s">>,
      <<"t", "r", "a", "n", "s", "i", "t", "i", "v", "e", "P", "e", "e", "r", "D", "e", "p", "e", "n", "d", "e", "n", "c", "i", "e", "s">>,
      <<"d", "e", "v">>,
      <<"h", "a", "s", "B", "i", "n">>,
      <<"r", "e", "q", "u", "i", "r", "e", "s", "B", "u", "i", "l", "d">>,
      <<"n", "a", "m", "e">>,
      <<"v", "e", "r", "s", "i", "o", "n">>,
      <<"l", "o", "c", "k", "f", "i", "l", "e", "V", "e", "r", "s", "i", "o", "n">>,
      <<"s", "e", "t", "t", "i", "n", "g", "s">>,
      <<"i", "m", "p", "o", "r", "t", "e", "r", "s">>,
      <<"p", "a", "c", "k", "a", "g", "e", "s">>,
      <<"s", "p", "e", "c", "i", "f", "i", "e", "r", "s">>,
      <<"p", "a", "t", "c", "h", "e", "d", "D", "e", "p", "e", "n", "d", "e", "n", "c", "i", "e", "s">> }

NoMatch == [ok |-> FALSE, key |-> <<>>]

\* pnpmKeyPattern.FindStringSubmatch(line): ^\s+['"]?/?([^:'"\s]+)['"]?:
\* The slash is left to the key when no key character follows it.
pnpmKeyPattern(line) ==
    LET n == Len(line)
        NotKey == {":", "'", "\""} \cup WhiteSpace
        KeyCh(ch) == ch \notin NotKey
        ws == RunOf(line, 1, WhiteSpace)
        q == IF ws < n /\ IsQuote(line[ws + 1]) THEN 1 ELSE 0
        p == ws + q
        sl == IF p + 1 < n /\ line[p + 1] = "/" /\ KeyCh(line[p + 2]) THEN 1 ELSE 0
        from == p + sl + 1
        to == RunNotOf(line, from, NotKey)
        q2 == IF to < n /\ IsQuote(line[to + 1]) THEN 1 ELSE 0
    IN  IF ws >= 1 /\ to >= from /\ to + q2 < n /\ line[to + q2 + 1] = ":"
        THEN [ok |-> TRUE, key |-> SubSeq(line, from, to)]
        ELSE NoMatch

\* strings.LastIndexAny, 0-based; -1 when no character of chars occurs
LastIndexAny(s, chars) ==
    LET at == {i \in 1..Len(s) : s[i] \in chars}
    IN  IF at = {} THEN -1 ELSE (CHOOSE i \in at : \A j \in at : i >= j) - 1

parsePnpmKeyFirstSeparator(key) ==
    LET idx == IndexByte(key, "(")
        k == IF idx # -1 THEN SubSeq(key, 1, idx) ELSE key
        at == {i \in 1..Len(k) : k[i] \in {"/", "@"}}
        sep == IF at = {} THEN -1 ELSE (CHOOSE i \in at : \A j \in at : i <= j) - 1
    IN  IF sep <= 0 \/ sep >= Len(k) - 1 THEN NoEntry
        ELSE LET name == SubSeq(k, 1, sep)
                 rest == SubSeq(k, sep + 2, Len(k))
                 u == IndexByte(rest, "_")
                 version == IF u # -1 THEN SubSeq(rest, 1, u) ELSE rest
             IN  [name |-> name, version |-> version,
                  ok |-> name # <<>> /\ version # <<>>]

\* parsePnpmKey
parsePnpmKey(key) ==
    LET idx == IndexByte(key, "(")
        k == IF idx # -1 THEN SubSeq(key, 1, idx) ELSE key
        sep == LastIndexAny(k, {"/", "@"})
    IN  IF sep <= 0 \/ sep >= Len(k) - 1 THEN NoEntry
        ELSE LET name == SubSeq(k, 1, sep)
                 rest == SubSeq(k, sep + 2, Len(k))
                 u == IndexByte(rest, "_")
                 version == IF u # -1 THEN SubSeq(rest, 1, u) ELSE rest
             IN  [name |-> name, version |-> version,
                  ok |-> name # <<>> /\ version # <<>>]

\* a line of more bytes than bufio.MaxScanTokenSize, the largest token the
\* bufio.Scanner of parsePnpmLockfile delivers
TooLong == <<"line longer than bufio.MaxScanTokenSize">>

RECURSIVE scanPnpmLines(_, _)
\* parsePnpmLockfile, lines 48-79, on an opened file: the loop over the
\* lines from line i on, and sc.Err() after it
scanPnpmLines(lines, i) ==
    IF i > Len(lines) THEN Parsed(<<>>, <<>>, "nil")
    ELSE IF lines[i] = TooLong THEN Parsed(<<>>, <<>>, "token too long")
    ELSE LET m == pnpmKeyPattern(lines[i])
             e == parsePnpmKey(m.key)
             rest == scanPnpmLines(lines, i + 1)
             v == [PackageName |-> e.name, Version |-> e.version]
         IN  IF ~m.ok \/ m.key \in pnpmIgnoredKeys \/ ~e.ok THEN rest
             ELSE Parsed(<<v>> \o rest.cands,
                         IF IsInfected(e.name, e.version) THEN <<v>> \o rest.issues
                         ELSE rest.issues,
                         rest.err)

(***************************************************************************)
(* package parser: the text of a yarn.lock                                 *)
(***************************************************************************)
\* the last position of line that holds no white space (0: none)
TrimmedEnd(line) ==
    LET ns == {i \in 1..Len(line) : ~IsSpace(line[i])}
    IN  IF ns = {} THEN 0 ELSE CHOOSE i \in ns : \A j \in ns : i >= j

yarnHeaderLastAt(line) ==
    LET t == TrimmedEnd(line)
        q == IF Len(line) >= 1 /\ IsQuote(line[1]) THEN 1 ELSE 0
        ats == {i \in (q + 2)..(t - 2) : line[i] = "@"}
        last == CHOOSE i \in ats : \A j \in ats : i >= j
    IN  IF ats # {} /\ line[t] = ":"
        THEN [ok |-> TRUE, name |-> SubSeq(line, q + 1, last - 1)]
        ELSE [ok |-> FALSE, name |-> <<>>]

\* yarnPattern on a header line: ^['"]?(@?[^@"\s']+)@.+?['"]?:\s* up to
\* the end of the line
yarnHeader(line) ==
    LET n == Len(line)
        NotName == {"@", "\"", "'"} \cup WhiteSpace
        q == IF n >= 1 /\ IsQuote(line[1]) THEN 1 ELSE 0
        at == IF q < n /\ line[q + 1] = "@" THEN 1 ELSE 0
        from == q + at + 1
        to == RunNotOf(line, from, NotName)
        t == TrimmedEnd(line)
    IN  IF /\ to >= from
           /\ to < n /\ line[to + 1] = "@"
           /\ t >= to + 3 /\ line[t] = ":"
        THEN [ok |-> TRUE, name |-> SubSeq(line, q + 1, to)]
        ELSE [ok |-> FALSE, name |-> <<>>]

VersionWord == <<"v", "e", "r", "s", "i", "o", "n">>

\* yarnPattern on the line of the version field:
\* \s*version(?:\s+|:\s+)["']?([^"\s']+)["']?
yarnVersion(line) ==
    LET n == Len(line)
        NotValue == {"\"", "'"} \cup WhiteSpace
        ws == RunOf(line, 1, WhiteSpace)
        p == ws + Len(VersionWord)
        c == IF p < n /\ line[p + 1] = ":" THEN 1 ELSE 0
        sp == RunOf(line, p + c + 1, WhiteSpace)
        q == IF sp < n /\ IsQuote(line[sp + 1]) THEN 1 ELSE 0
        from == sp + q + 1
        to == RunNotOf(line, from, NotValue)
    IN  IF /\ p <= n /\ SubSeq(line, ws + 1, p) = VersionWord
           /\ sp >= p + c + 1
           /\ to >= from
        THEN [ok |-> TRUE, version |-> SubSeq(line, from, to)]
        ELSE [ok |-> FALSE, version |-> <<>>]

\* the first line after line i that is not blank (0: none); \s* of the
\* pattern passes the blank lines between the header and the version field
NextLine(lines, i) ==
    LET js == {j \in (i + 1)..Len(lines) : TrimmedEnd(lines[j]) > 0}
    IN  IF js = {} THEN 0 ELSE CHOOSE j \in js : \A k \in js : j <= k

\* yarnPattern matched at the start of line i: the package name, the
\* version, and the line the match ends in
yarnPattern(lines, i) ==
    LET h == yarnHeader(lines[i])
        j == NextLine(lines, i)
        v == IF j = 0 THEN [ok |-> FALSE, version |-> <<>>] ELSE yarnVersion(lines[j])
    IN  [ok |-> h.ok /\ v.ok, pkg |-> h.name, ver |-> v.version, last |-> j]

RECURSIVE findAllYarn(_, _)
\* parseYarnLockfile, lines 21-38, on content that was read: the loop over
\* yarnPattern.FindAllSubmatch, the matches from line i on
findAllYarn(lines, i) ==
    IF i > Len(lines) THEN Parsed(<<>>, <<>>, "nil")
    ELSE LET m == yarnPattern(lines, i)
         IN  IF ~m.ok THEN findAllYarn(lines, i + 1)
             ELSE LET rest == findAllYarn(lines, m.last + 1)
                      v == [PackageName |-> m.pkg, Version |-> m.ver]
                  IN  Parsed(<<v>> \o rest.cands,
                             IF IsInfected(m.pkg, m.ver) THEN <<v>> \o rest.issues
                             ELSE rest.issues,
                             "nil")

\* the program is not run: ExecuteScan or Load is called by itself
RunOff ==
    /\ rpc = "off"
    /\ flagJSON = FALSE
    /\ flagFullReport = FALSE
    /\ flagExclude = ""
    /\ flagDatabase = ""
    /\ stdoutOk = TRUE
    /\ exitCode = -1
    /\ rendered = "none"
    /\ displayResults = <<>>
    /\ summary = [TotalProjects |-> 0, InfectedProjects |-> 0,
                  TotalInfectedPackages |-> 0]

ScanIdle ==
    /\ fault = EmptyMap
    /\ tasks = <<>>
    /\ errs = <<>>
    /\ sent = 0
    /\ jobsClosed = FALSE
    /\ wpc = [w \in Workers |-> "idle"]
    /\ wjob = [w \in Workers |-> 0]
    /\ wres = [w \in Workers |-> NoItem]
    /\ wold = [w \in Workers |-> <<>>]
    /\ resultsClosed = FALSE
    /\ byProject = EmptyMap
    /\ projects = <<>>
    /\ scanResults = <<>>
    /\ retErr = <<>>
    /\ recvCount = <<>>
    /\ aggCount = <<>>

\* ---- the database alone
InitDB ==
    /\ \E free \in AllLines, tail \in SampleTails : dbFile = <<free>> \o tail
    /\ entries = EmptyMap
    /\ loadedPath = ""
    /\ entryCount = 0
    /\ loadErr = "none"
    /\ loads = 0
    /\ skipped = 0
    /\ cfg = Cfg(<<>>, FALSE, FALSE, FALSE, NoRegex)
    /\ pc = "idle"
    /\ ScanIdle
    /\ RunOff
    /\ TextOff

NextDB == \E path \in LoadArgs : Load(path)

SpecDB == InitDB /\ [][NextDB]_vars

\* ---- ExecuteScan with its workers
DbLoaded ==
    /\ dbFile = <<>>
    /\ entries = ScanDatabase
    /\ loadedPath = "db.txt"
    /\ entryCount = 2
    /\ loadErr = "nil"
    /\ loads = 0
    /\ skipped = 0

Plain(targets, recursive) == Cfg(targets, recursive, FALSE, FALSE, NoRegex)

\* the scans whose interleavings are explored
ScanCfgs ==
    { Plain(<< <<"r">> >>, FALSE),
      Plain(<< <<"r", "sub">> >>, TRUE),
      Plain(<< <<"r", "sub">>, <<"r", "sub", "pnpm-lock.yaml">> >>, FALSE),
      Plain(<< <<"nope">>, <<"r", "custom_exclude">> >>, FALSE),
      Plain(<< <<"r", "README.md">> >>, FALSE),
      Plain(<< <<"nope">> >>, TRUE),
      Plain(<< <<"r", "locked">>, <<"r", "yarn.lock">> >>, TRUE),
      Plain(<< <<"r">>, <<"r", "sub">> >>, FALSE),
      Plain(<< <<"r", "custom_exclude">>, <<"r", "custom_exclude">> >>, FALSE),
      Cfg(<< <<"nope">>, <<"r">>, <<"gone">> >>, TRUE, FALSE, FALSE, Component("sub")) }

TaskFiles(c) ==
    LET ts == collectAll(c, Len(c.TargetPaths)).tasks
    IN  {FullPath(ts[i]) : i \in DOMAIN ts}

\* every fault for a scan of up to two lockfiles; a larger scan reads all
\* its lockfiles
FaultsFor(c) == IF Cardinality(TaskFiles(c)) > 2 THEN {"none"} ELSE Faults

ScanStart ==
    /\ pc = "collect"
    /\ tasks = <<>>
    /\ errs = <<>>
    /\ sent = 0
    /\ jobsClosed = FALSE
    /\ wpc = [w \in Workers |-> "idle"]
    /\ wjob = [w \in Workers |-> 0]
    /\ wres = [w \in Workers |-> NoItem]
    /\ wold = [w \in Workers |-> <<>>]
    /\ resultsClosed = FALSE
    /\ byProject = EmptyMap
    /\ projects = <<>>
    /\ scanResults = <<>>
    /\ retErr = <<>>
    /\ recvCount = <<>>
    /\ aggCount = <<>>

InitScan ==
    /\ DbLoaded
    /\ cfg \in ScanCfgs
    /\ fault \in [TaskFiles(cfg) -> FaultsFor(cfg)]
    /\ ScanStart
    /\ RunOff
    /\ TextOff

NextScan ==
    \/ CollectTasks
    \/ \E w \in Workers : Dispatch(w)
    \/ CloseJobs
    \/ \E w \in Workers : Parse(w)
    \/ \E w \in Workers : AppendErr(w)
    \/ \E w \in Workers : SendResult(w)
    \/ \E w \in Workers : WorkerExit(w)
    \/ CloseResults
    \/ Finish

SpecScan == InitScan /\ [][NextScan]_vars

\* the steps of the goroutines ExecuteScan starts, and of its own loop over
\* jobResults
NextRun ==
    \/ \E w \in Workers : Dispatch(w)
    \/ CloseJobs
    \/ \E w \in Workers : Parse(w)
    \/ \E w \in Workers : AppendErr(w)
    \/ \E w \in Workers : SendResult(w)
    \/ \E w \in Workers : WorkerExit(w)
    \/ CloseResults
    \/ Finish

\* The caller completes the collection, its only step while pc = "collect",
\* and the scheduler then keeps running a goroutine while one can step.
FairScan == SpecScan /\ <>(pc # "collect") /\ WF_vars(NextRun)

\* ---- the task collector alone
TargetChoices ==
    { <<"r">>, <<"r", "sub">>, <<"r", "custom_exclude">>, <<"r", "node_modules">>,
      <<"r", "locked">>, <<"r", "package-lock.json">>, <<"r", "README.md">>,
      <<"r", "custom_exclude", "package-lock.json">>,
      <<"r", "node_modules", "yarn.lock">>, <<"r", "sub", "pnpm-lock.yaml">>,
      <<"r", ".git">>, <<"r", "Node_Modules">>, <<"nope">> }

Patterns ==
    { NoRegex, Component("custom_exclude"), Component("yarn.lock"), Last("sub") }

InitWalk ==
    /\ DbLoaded
    /\ \E n \in 0..MaxTargets, recursive, git, nm \in BOOLEAN, re \in Patterns :
         \E targets \in [1..n -> TargetChoices] :
            cfg = Cfg(targets, recursive, git, nm, re)
    /\ fault = EmptyMap
    /\ ScanStart
    /\ RunOff
    /\ TextOff

NextWalk == CollectTasks

SpecWalk == InitWalk /\ [][NextWalk]_vars

\* ---- the parsers on the text of a lockfile
Strings(alphabet, n) == UNION {[1..k -> alphabet] : k \in 0..n}

PkgScoped == <<"@", "s", "/", "a">>
PkgA == <<"a">>

TextNames == {PkgA, PkgScoped, PkgEvil}
TextVersions == {<<"1">>, Ver100}

TextDatabases ==
    { EmptyMap,
      (PkgEvil :> {Ver100}) @@ (PkgScoped :> {<<"1">>}) @@ (PkgA :> {<<"2">>}) }

\* the keys enumerated character by character
KeyChars == {"a", "1", "/", "@", "_", "("}
ShortKeys == Strings(KeyChars, MaxKeyLen)

\* the text of a peer-dependency suffix
SuffixChars == {"b", "7", "@", "/"}
PeerSuffixes == Strings(SuffixChars, MaxSuffixLen)

\* name<sep>version_suffix, the key of a peer-dependency-qualified duplicate
UnderscoreKey(name, sep, version, suffix) ==
    name \o <<sep>> \o version \o <<"_">> \o suffix

UnderscoreKeys ==
    {UnderscoreKey(nm, sep, ver, sfx) :
        nm \in TextNames, sep \in {"/", "@"}, ver \in TextVersions, sfx \in PeerSuffixes}

\* the shapes of a composite package key: /name@version, name@version and
\* /name/version, the name with its scope if it has one
KeyShapes ==
    { [slash |-> <<"/">>, sep |-> "@"], [slash |-> <<>>, sep |-> "@"],
      [slash |-> <<"/">>, sep |-> "/"] }

KeyQuotes == {<<>>, <<"'">>, <<"\"">>}

KeyTails == {<<>>} \cup {<<"(">> \o sfx \o <<")">> : sfx \in PeerSuffixes}

PnpmKey(shape, name, version, tail) ==
    shape.slash \o name \o <<shape.sep>> \o version \o tail

\* an indented line "  key:" of a pnpm-lock.yaml, the key quoted with q
PnpmLine(q, key) == <<" ", " ">> \o q \o key \o q \o <<":">>

ShapedLines ==
    {PnpmLine(q, PnpmKey(sh, nm, ver, tl)) :
        q \in KeyQuotes, sh \in KeyShapes, nm \in TextNames, ver \in TextVersions,
        tl \in KeyTails}

\* lines that hold no package: a structural key, a key at the margin, a
\* line without colon, an unclosed parenthesis, an empty line
OddLines ==
    { <<" ", " ", "d", "e", "v", ":", " ", "1">>,
      <<"a", "@", "1", ":">>,
      <<" ", " ", "a", "@", "1">>,
      <<" ", " ", "/", "a", "@", "(", ":">>,
      <<" ", "\t", "'", "'", ":">>,
      <<>> }

PnpmTexts ==
    {<<l>> : l \in ShapedLines \cup OddLines}
    \cup {<<PnpmLine(<<>>, k)>> : k \in ShortKeys}
    \cup {<<l, TooLong>> : l \in OddLines \cup {PnpmLine(<<>>, PkgEvil \o <<"@">> \o Ver100)}}
    \cup {<<TooLong, PnpmLine(<<>>, PkgEvil \o <<"@">> \o Ver100)>>}

\* the ranges of a yarn specifier: a semver range, an npm: range, an alias
\* of another package at a version, a git URL with a user
YarnRanges ==
    { <<"^", "1">>, <<"n", "p", "m", ":", "1">>, <<"n", ":", "b", "@", "1">>,
      <<"g", ":", "u", "@", "h">> }

YarnQuotes == {<<>>, <<"\"">>}

\* the header of a block: the specifier name@range, quoted with q, alone or
\* followed by a second specifier of the same package
YarnHeaderLine(q, name, range, more) ==
    q \o name \o <<"@">> \o range \o q
      \o (IF more THEN <<",", " ">> \o q \o name \o <<"@", "2">> \o q ELSE <<>>)
      \o <<":">>

\* the version field, as yarn classic ("quoted") or yarn berry ("colon")
\* writes it
YarnVersionLine(form, v) ==
    <<" ", " ">> \o VersionWord
      \o (IF form = "quoted" THEN <<" ", "\"">> \o v \o <<"\"">> ELSE <<":", " ">> \o v)

YarnBlock(q, name, range, more, form, v) ==
    << YarnHeaderLine(q, name, range, more), YarnVersionLine(form, v) >>

YarnBlocks ==
    {YarnBlock(q, nm, rg, more, form, v) :
        q \in YarnQuotes, nm \in TextNames, rg \in YarnRanges, more \in BOOLEAN,
        form \in {"quoted", "colon"}, v \in TextVersions}

\* content without a block the pattern takes: a header without version
\* field, a header followed by another field, a version field alone, a
\* comment, a name without range, nothing
YarnOdd ==
    { << YarnHeaderLine(<<>>, PkgEvil, <<"^", "1">>, FALSE) >>,
      << YarnHeaderLine(<<>>, PkgEvil, <<"^", "1">>, FALSE),
         <<" ", " ", "r", "e", "s", "o", "l", "v", "e", "d", " ", "x">>,
         YarnVersionLine("quoted", Ver100) >>,
      << YarnVersionLine("quoted", Ver100) >>,
      << <<"#", " ", "y", "a", "r", "n">> >>,
      << PkgEvil \o <<":">>, YarnVersionLine("colon", Ver100) >>,
      << PkgEvil \o <<"@", ":">>, YarnVersionLine("colon", Ver100) >>,
      << YarnHeaderLine(<<>>, PkgEvil, <<"^", "1">>, FALSE),
         <<" ", " ">> \o VersionWord \o <<" ", "\"", "\"">> >>,
      <<>> }

YarnTexts ==
    YarnBlocks \cup YarnOdd
    \cup {<< <<"#", " ", "y", "a", "r", "n">>, <<>> >> \o b \o << <<>> >>
              \o YarnBlock(<<>>, PkgA, <<"^", "1">>, FALSE, "quoted", <<"1">>) :
          b \in {YarnBlock(<<"\"">>, PkgEvil, <<"^", "1">>, TRUE, "quoted", Ver100),
                 YarnBlock(<<>>, PkgScoped, <<"n", "p", "m", ":", "1">>, FALSE,
                           "colon", <<"1">>)}}

InitText ==
    /\ dbFile = <<>>
    /\ entries \in TextDatabases
    /\ loadedPath = "db.txt"
    /\ entryCount = Cardinality(DOMAIN entries)
    /\ loadErr = "nil"
    /\ loads = 0
    /\ skipped = 0
    /\ cfg = Cfg(<<>>, FALSE, FALSE, FALSE, NoRegex)
    /\ pc = "idle"
    /\ ScanIdle
    /\ RunOff
    /\ \/ lockKind = "key" /\ \E k \in ShortKeys \cup UnderscoreKeys : lockLines = <<k>>
       \/ lockKind = "pnpm" /\ lockLines \in PnpmTexts
       \/ lockKind = "yarn" /\ lockLines \in YarnTexts
    /\ parsed = Parsed(<<>>, <<>>, "pending")

\* parsePnpmKey applied to a key
ApplyParsePnpmKey ==
    /\ lockKind = "key"
    /\ parsed.err = "pending"
    /\ LET e == parsePnpmKey(lockLines[1])
       IN  parsed' = Parsed(IF e.ok THEN <<V(e.name, e.version)>> ELSE <<>>, <<>>, "nil")
    /\ UNCHANGED <<dbVars, scanVars, runVars, lockKind, lockLines>>

\* parsePnpmLockfile applied to a pnpm-lock.yaml that opens
ParsePnpmText ==
    /\ lockKind = "pnpm"
    /\ parsed.err = "pending"
    /\ parsed' = scanPnpmLines(lockLines, 1)
    /\ UNCHANGED <<dbVars, scanVars, runVars, lockKind, lockLines>>

\* parseYarnLockfile applied to a yarn.lock that was read
ParseYarnText ==
    /\ lockKind = "yarn"
    /\ parsed.err = "pending"
    /\ parsed' = findAllYarn(lockLines, 1)
    /\ UNCHANGED <<dbVars, scanVars, runVars, lockKind, lockLines>>

NextText ==
    \/ ApplyParsePnpmKey
    \/ ParsePnpmText
    \/ ParseYarnText

SpecText == InitText /\ [][NextText]_vars

\* ---- the program: runRoot with the database, the scan and the report
RunDbLines ==
    << PkgEvil \o <<":">> \o Ver100, <<"#", "x">>, PkgBad \o <<":">> \o Ver200 >>

RunCfgs ==
    { Plain(<< <<"r", "README.md">> >>, FALSE),
      Plain(<< <<"nope">> >>, FALSE),
      Plain(<< <<"r", "sub", "deep">> >>, FALSE),
      Plain(<< <<"r", "custom_exclude">> >>, FALSE),
      Plain(<< <<"r", "sub">> >>, TRUE),
      Plain(<< <<"r", "custom_exclude">>, <<"r", "sub">> >>, TRUE),
      Plain(<< <<"r", "locked">>, <<"r", "sub", "deep">> >>, FALSE) }

RunDatabases == {"db.txt", "", "missing.txt", "broken.txt", "denied.txt"}

InitMain ==
    /\ dbFile = RunDbLines
    /\ entries = EmptyMap
    /\ loadedPath = ""
    /\ entryCount = 0
    /\ loadErr = "none"
    /\ loads = 0
    /\ skipped = 0
    /\ cfg \in RunCfgs
    /\ fault \in [TaskFiles(cfg) -> FaultsFor(cfg)]
    /\ pc = "idle"
    /\ tasks = <<>>
    /\ errs = <<>>
    /\ sent = 0
    /\ jobsClosed = FALSE
    /\ wpc = [w \in Workers |-> "idle"]
    /\ wjob = [w \in Workers |-> 0]
    /\ wres = [w \in Workers |-> NoItem]
    /\ wold = [w \in Workers |-> <<>>]
    /\ resultsClosed = FALSE
    /\ byProject = EmptyMap
    /\ projects = <<>>
    /\ scanResults = <<>>
    /\ retErr = <<>>
    /\ recvCount = <<>>
    /\ aggCount = <<>>
    /\ rpc = "flags"
    /\ flagJSON \in BOOLEAN
    /\ flagFullReport \in BOOLEAN
    /\ flagExclude \in {"", "("}
    /\ flagDatabase \in RunDatabases
    /\ stdoutOk \in IF flagJSON /\ ~flagFullReport THEN BOOLEAN ELSE {TRUE}
    /\ exitCode = -1
    /\ rendered = "none"
    /\ displayResults = <<>>
    /\ summary = [TotalProjects |-> 0, InfectedProjects |-> 0,
                  TotalInfectedPackages |-> 0]
    /\ TextOff

NextMain ==
    \/ RunParseFlags
    \/ RunLoad
    \/ CollectTasks
    \/ \E w \in Workers : Dispatch(w)
    \/ CloseJobs
    \/ \E w \in Workers : Parse(w)
    \/ \E w \in Workers : AppendErr(w)
    \/ \E w \in Workers : SendResult(w)
    \/ \E w \in Workers : WorkerExit(w)
    \/ CloseResults
    \/ Finish
    \/ RunScanError
    \/ RunReport

SpecMain == InitMain /\ [][NextMain]_vars

(***************************************************************************)
(* Properties of the database                                              *)
(***************************************************************************)
\* the entry "n:v" a line holds, if any: trimmed it is no comment, n is what
\* precedes its first colon and v what follows it, both trimmed, neither empty
LiteralEntries(line) ==
    LET t == TrimSpace(line)
        first == {i \in 1..Len(t) : t[i] = ":" /\ \A j \in 1..(i - 1) : t[j] # ":"}
        pairs == {<<TrimSpace(SubSeq(t, 1, i - 1)), TrimSpace(SubSeq(t, i + 1, Len(t)))>> :
                    i \in first}
    IN  IF Len(t) > 0 /\ t[1] = "#" THEN {}
        ELSE {q \in pairs : q[1] # <<>> /\ q[2] # <<>>}

LoadedFrom(lines) == UNION {LiteralEntries(lines[i]) : i \in DOMAIN lines}

\* the strings IsInfected is probed with: every string of up to two
\* characters, what stands before and after each colon of each line of the
\* file, and every key stored
ProbeStrings(lines) ==
    UNION {[1..k -> Chars] : k \in 0..2}
    \cup UNION {UNION {{TrimSpace(SubSeq(lines[i], 1, c - 1)),
                        TrimSpace(SubSeq(lines[i], c + 1, Len(lines[i])))} :
                          c \in {j \in 1..Len(lines[i]) : lines[i][j] = ":"}} :
                  i \in DOMAIN lines}
    \cup DOMAIN entries
    \cup UNION {entries[k] : k \in DOMAIN entries}

\* C1: after a successful Load, IsInfected(n, v) is true exactly when the
\* file loaded holds the literal entry n:v; the comparison is exact, so the
\* cases of a letter are different names, and an empty name or version
\* never matches.
C1_ExactMembership ==
    loadErr = "nil" =>
        LET lines == Disk(loadedPath).lines
            loaded == LoadedFrom(lines)
            probes == ProbeStrings(lines)
        IN  \A n, v \in probes :
                /\ IsInfected(n, v) <=> <<n, v>> \in loaded
                /\ (n = <<>> \/ v = <<>>) => ~IsInfected(n, v)

\* a file with the entry P:p and no entry p:p has been loaded
C1_Witness ==
    /\ loadErr = "nil"
    /\ loadedPath = "db.txt"
    /\ IsInfected(<<"P">>, <<"p">>)
    /\ ~IsInfected(<<"p">>, <<"p">>)
    /\ ~IsInfected(<<"P">>, <<"P">>)

\* C17: a Load of the resolved path that a Load already loaded returns no
\* error and leaves the entry count and every answer of IsInfected as they
\* were.
C17_ReloadIdempotent ==
    [][\A path \in LoadArgs, exeErr \in BOOLEAN :
          (/\ loadedPath # ""
           /\ ResolvePath(path, exeErr) = loadedPath
           /\ loads' = loads + 1
           /\ LoadAt(path, exeErr)) =>
              /\ loadErr' = "nil"
              /\ entryCount' = entryCount
              /\ \A n, v \in ProbeStrings(Disk(loadedPath).lines) :
                    IsInfected(n, v)' = IsInfected(n, v)]_vars

\* db.txt, which holds entries, was loaded, and a second Load of the same
\* path has returned without an error
C17_Witness ==
    /\ loads = 2
    /\ skipped = 1
    /\ loadErr = "nil"
    /\ loadedPath = "db.txt"
    /\ entryCount > 0
    /\ \E n, v \in ProbeStrings(Disk(loadedPath).lines) : IsInfected(n, v)

\* the (name, version) pairs the database holds
Stored == UNION {{<<n, v>> : v \in entries[n]} : n \in DOMAIN entries}

\* C27: a Load that returns an error leaves entries, loadedPath and
\* entryCount as they were; a Load returns at line 45 only for the path that
\* a Load loaded with success, so a path whose Load failed is opened again;
\* and after a Load that read a file with success the database holds the
\* entries of that file and no others.
C27_FailedLoadKeepsDatabase ==
    [][loads' = loads + 1 =>
          /\ loadErr' # "nil" =>
                /\ UNCHANGED <<entries, loadedPath, entryCount, skipped>>
                /\ \A n, v \in ProbeStrings(Disk(loadedPath).lines) :
                      IsInfected(n, v)' = IsInfected(n, v)
          /\ skipped' # skipped =>
                /\ loadedPath # ""
                /\ Disk(loadedPath).status = "ok"
                /\ UNCHANGED <<entries, loadedPath, entryCount>>
          /\ (loadErr' = "nil" /\ skipped' = skipped) =>
                /\ loadedPath' # loadedPath
                /\ Stored' = LoadedFrom(Disk(loadedPath').lines)
                /\ entryCount' = Cardinality(Stored')]_vars

\* db.txt, which holds entries, was loaded, and then the Load of a file
\* whose read fails part-way returned its error: the database still holds
\* db.txt
C27_Witness ==
    /\ loads = 2
    /\ loadErr = "error while reading database"
    /\ loadedPath = "db.txt"
    /\ entryCount > 0
    /\ Stored = LoadedFrom(Disk("db.txt").lines)
    /\ <<"b">> \notin DOMAIN entries

(***************************************************************************)
(* Properties of ExecuteScan                                               *)
(***************************************************************************)
Done == pc = "done"

Range(seq) == {seq[i] : i \in DOMAIN seq}

\* the parser fails on the lockfile of task t
Fails(t) ==
    LET f == fault[FullPath(t)]
    IN  CASE t.Lockfile = "package-lock.json" -> f \in {"open", "read", "syntax"}
          [] OTHER -> f \in {"open", "read"}

\* the findings the lockfile of task t holds for the database, from its
\* content alone
Held(cands) ==
    {c \in Range(cands) :
        /\ c.PackageName \in DOMAIN ScanDatabase
        /\ c.Version \in ScanDatabase[c.PackageName]}

FindingsOf(t) ==
    LET c == Content(FullPath(t))
        f == fault[FullPath(t)]
    IN  IF Fails(t)
        THEN IF t.Lockfile = "pnpm-lock.yaml" /\ f = "read"
             THEN Held(SubSeq(c.cands, 1, ReadErrAt(FullPath(t))))
             ELSE {}
        ELSE IF f = "syntax" THEN {}
        ELSE IF t.Lockfile = "package-lock.json" THEN Held(c.deps) \cup Held(c.pkgs)
        ELSE Held(c.cands)

ResultFor(dir) ==
    scanResults[CHOOSE i \in DOMAIN scanResults : scanResults[i].ProjectPath = dir]

HasResult(dir) == \E i \in DOMAIN scanResults : scanResults[i].ProjectPath = dir

FirstAt(seq, x) == CHOOSE i \in DOMAIN seq : seq[i] = x /\ \A j \in 1..(i - 1) : seq[j] # x

\* C2: in every project returned, each (name, version) pair grouped for the
\* project appears exactly once in InfectedPackages, at the place of its
\* first occurrence among the findings grouped.
C2_Deduplicated ==
    Done =>
        \A i \in DOMAIN scanResults :
            LET out == scanResults[i].InfectedPackages
                all == byProject[scanResults[i].ProjectPath].Issues
            IN  /\ \A a, b \in DOMAIN out : out[a] = out[b] => a = b
                /\ Range(out) = Range(all)
                /\ \A a, b \in DOMAIN out :
                      a < b => FirstAt(all, out[a]) < FirstAt(all, out[b])

\* a project was returned whose findings held a pair three times: from both
\* sections of its package-lock.json and from its yarn.lock
C2_Witness ==
    /\ Done
    /\ \E i \in DOMAIN scanResults :
          LET all == byProject[scanResults[i].ProjectPath].Issues
          IN  /\ Cardinality({k \in DOMAIN all : all[k] = V(PkgEvil, Ver100)}) = 3
              /\ Len(scanResults[i].Lockfiles) = 2
              /\ Len(scanResults[i].InfectedPackages) = 2

\* C3: the project paths returned are exactly the directories of the tasks
\* collected, each once, whether or not the parse of a lockfile succeeded.
C3_ProjectsAreTaskDirs ==
    Done =>
        /\ {scanResults[i].ProjectPath : i \in DOMAIN scanResults}
              = {tasks[i].Dir : i \in DOMAIN tasks}
        /\ \A i, j \in DOMAIN scanResults :
              scanResults[i].ProjectPath = scanResults[j].ProjectPath => i = j

\* two directories were returned, one of them with a lockfile that failed to
\* parse and no finding
C3_Witness ==
    /\ Done
    /\ Len(scanResults) = 2
    /\ \E i \in DOMAIN tasks :
          /\ Fails(tasks[i])
          /\ ResultFor(tasks[i].Dir).InfectedPackages = <<>>

\* C4: when the parser fails on the lockfile of a task, the directory is
\* returned with the lockfile listed, and InfectedPackages holds only what
\* the lockfiles of the directory that parsed hold.
C4_FailedLockfileContributesNothing ==
    Done =>
        \A i \in DOMAIN tasks :
            Fails(tasks[i]) =>
                /\ HasResult(tasks[i].Dir)
                /\ Contains(ResultFor(tasks[i].Dir).Lockfiles, tasks[i].Lockfile)
                /\ Range(ResultFor(tasks[i].Dir).InfectedPackages)
                      = UNION {FindingsOf(tasks[j]) :
                                 j \in {k \in DOMAIN tasks :
                                          /\ tasks[k].Dir = tasks[i].Dir
                                          /\ ~Fails(tasks[k])}}

\* C5: no task is received from jobs twice, no two workers hold the same
\* task, no record reaches the aggregator for a task not received, and at
\* the return every task was received once and aggregated once.
C5_EachTaskOnce ==
    /\ \A i \in DOMAIN recvCount : recvCount[i] <= 1 /\ aggCount[i] <= recvCount[i]
    /\ \A v, w \in Workers : (v # w /\ wjob[v] # 0) => wjob[v] # wjob[w]
    /\ Done => \A i \in DOMAIN tasks : recvCount[i] = 1 /\ aggCount[i] = 1

\* a scan of three tasks has returned
C5_Witness ==
    /\ Done
    /\ Len(tasks) = 3
    /\ \A i \in DOMAIN tasks : aggCount[i] = 1

\* C6: at the return every task whose parse succeeded has been aggregated
\* and its findings are in the result of its directory; when some parse
\* failed the results are returned together with a non-nil joined error.
C6_FailuresDoNotHaltOthers ==
    Done =>
        /\ \A i \in DOMAIN tasks :
              ~Fails(tasks[i]) =>
                  /\ aggCount[i] = 1
                  /\ HasResult(tasks[i].Dir)
                  /\ FindingsOf(tasks[i])
                        \subseteq Range(ResultFor(tasks[i].Dir).InfectedPackages)
        /\ (\E i \in DOMAIN tasks : Fails(tasks[i])) =>
              /\ Len(retErr) > 0
              /\ Len(scanResults) > 0

\* a scan returned an error, and the findings of a lockfile that parsed
\* beside one that failed
C6_Witness ==
    /\ Done
    /\ Len(retErr) > 0
    /\ \E i, j \in DOMAIN tasks :
          /\ Fails(tasks[i])
          /\ ~Fails(tasks[j])
          /\ FindingsOf(tasks[j]) # {}
          /\ FindingsOf(tasks[j]) \subseteq Range(ResultFor(tasks[j].Dir).InfectedPackages)

\* C7: the joined error returned holds every error of the collection and
\* exactly one parse error for each task whose parse failed.
C7_NoErrorLost ==
    Done =>
        LET collected == collectAll(cfg, Len(cfg.TargetPaths)).errs
        IN  /\ SubSeq(retErr, 1, Len(collected)) = collected
            /\ Len(retErr) = Len(collected)
                  + Cardinality({i \in DOMAIN tasks : Fails(tasks[i])})

\* C8: the content returned is a function of the tasks and of the lockfiles
\* alone: the directories of the tasks, for each the names of its lockfiles
\* and the findings these hold, whatever the interleaving was.
C8_ContentDeterministic ==
    Done =>
        /\ {scanResults[i].ProjectPath : i \in DOMAIN scanResults}
              = {tasks[i].Dir : i \in DOMAIN tasks}
        /\ \A i \in DOMAIN scanResults :
              LET mine == {k \in DOMAIN tasks : tasks[k].Dir = scanResults[i].ProjectPath}
              IN  /\ Range(scanResults[i].Lockfiles) = {tasks[k].Lockfile : k \in mine}
                  /\ Range(scanResults[i].InfectedPackages)
                        = UNION {FindingsOf(tasks[k]) : k \in mine}

\* a project was returned with the findings of two lockfiles that hold
\* different sets of infected packages
C8_Witness ==
    /\ Done
    /\ \E i, j \in DOMAIN tasks :
          /\ tasks[i].Dir = tasks[j].Dir
          /\ FindingsOf(tasks[i]) # {}
          /\ FindingsOf(tasks[j]) # {}
          /\ FindingsOf(tasks[i]) # FindingsOf(tasks[j])
          /\ Cardinality(Range(ResultFor(tasks[i].Dir).InfectedPackages)) = 2

\* C9: ExecuteScan returns; and when it returns from a scan that had tasks,
\* all were sent, jobs is closed, every worker has exited and jobResults was
\* closed, which happens only once every worker has exited.
C9_Terminates ==
    /\ <>Done
    /\ [](resultsClosed => \A w \in Workers : wpc[w] = "done")
    /\ [](Done /\ tasks # <<>> =>
            /\ sent = Len(tasks)
            /\ jobsClosed
            /\ resultsClosed
            /\ \A w \in Workers : wpc[w] = "done")

\* a scan with fewer tasks than workers has returned
C9_Witness ==
    /\ Done
    /\ Len(tasks) > 0
    /\ Len(tasks) < workerCount
    /\ resultsClosed
    /\ \A w \in Workers : wpc[w] = "done"

LockfileNames == {"package-lock.json", "yarn.lock", "pnpm-lock.yaml"}

\* the lockfiles directly in directory t
OwnLockfiles(t) ==
    {Task(t, Kids(t)[k].name) :
        k \in {j \in DOMAIN Kids(t) :
                 ~Kids(t)[j].dir
                 /\ Kids(t)[j].name \in {"package-lock.json", "yarn.lock", "pnpm-lock.yaml"}}}

\* a directory target whose own entries the walk reads: it exists, is
\* readable, and neither the exclusion pattern nor the skip rule applies to it
WalkedTarget(t) ==
    /\ Lookup(t) = "dir"
    /\ t \notin Unreadable
    /\ ~MatchString(cfg.ExcludeRegex, t)
    /\ ~(~cfg.IncludeGit /\ Fold(Base(t)) = ".git")
    /\ ~(~cfg.IncludeNodeModules /\ Fold(Base(t)) = "node_modules")

\* the position in tasks of task x
TaskAt(x) == {i \in DOMAIN tasks : tasks[i] = x}

\* C14: at the return, the error of every target path that could not be
\* stat'd is in the joined error, and so is the error of a walk that hit an
\* unreadable directory; the lockfiles of every other target (a lockfile
\* named directly, the own lockfiles of a directory walked, those of a
\* walk that recorded a traversal error included) were collected as tasks,
\* parsed and aggregated, and their directories are returned.
C14_BadPathsDoNotStopOthers ==
    Done =>
        \A k \in DOMAIN cfg.TargetPaths :
            LET t == cfg.TargetPaths[k]
                kind == Lookup(t)
                expected == IF kind = "file" /\ Base(t) \in LockfileNames
                            THEN {Task(Dir(t), Base(t))}
                            ELSE IF kind = "dir" /\ WalkedTarget(t)
                            THEN {x \in OwnLockfiles(t) :
                                    ~MatchString(cfg.ExcludeRegex, FullPath(x))}
                            ELSE {}
            IN  /\ kind = "none" => <<"stat", t>> \in Range(retErr)
                /\ (kind = "dir" /\ t \in Unreadable) =>
                      \E e \in Range(retErr) : e[1] = "join" /\ <<"walk", t>> \in Range(e[2])
                /\ \A x \in expected :
                      /\ TaskAt(x) # {}
                      /\ \A i \in TaskAt(x) : recvCount[i] = 1 /\ aggCount[i] = 1
                      /\ HasResult(x.Dir)
                      /\ Contains(ResultFor(x.Dir).Lockfiles, x.Lockfile)

\* a scan of three target paths, the first and the last of which do not
\* exist, returned both stat errors, the error of the walk of r, which has
\* an unreadable subdirectory, and the project r with its two lockfiles
C14_Witness ==
    /\ Done
    /\ cfg.TargetPaths = << <<"nope">>, <<"r">>, <<"gone">> >>
    /\ <<"stat", <<"nope">> >> \in Range(retErr)
    /\ <<"stat", <<"gone">> >> \in Range(retErr)
    /\ \E e \in Range(retErr) : e[1] = "join"
    /\ HasResult(<<"r">>)
    /\ Len(ResultFor(<<"r">>).Lockfiles) = 2
    /\ \A i \in DOMAIN tasks : aggCount[i] = 1

\* a worker is still running: it may receive, parse or send
Running(w) == wpc[w] \in {"recv", "parse", "append", "send"}

\* C23 as stated: no record is grouped into a project entry while a worker
\* is still running.
C23_NoGroupingWhileWorkersRun ==
    (\E i \in DOMAIN aggCount : aggCount[i] > 0) => \A w \in Workers : ~Running(w)

\* C23, amended: records are grouped while workers are still running, but
\* the result list is built, and ExecuteScan returns, only after every
\* worker has finished all of its tasks and every record has been grouped.
C23_ResultsBuiltAfterWorkers ==
    [][(pc = "aggregate" /\ pc' = "done") =>
          /\ \A w \in Workers : wpc[w] = "done"
          /\ resultsClosed
          /\ \A i \in DOMAIN tasks : recvCount[i] = 1 /\ aggCount[i] = 1
          /\ \A w \in Workers : wres[w] = NoItem]_vars

\* a scan of two lockfiles in two directories has returned its two
\* projects, after both records were grouped and all workers had exited
C23_Witness ==
    /\ Done
    /\ Len(tasks) = 2
    /\ Len(scanResults) = 2
    /\ \A i \in DOMAIN tasks : aggCount[i] = 1
    /\ \A w \in Workers : ~Running(w) /\ wres[w] = NoItem

\* the lockfile of task t could not be read: it cannot be opened, or the
\* read fails part-way
Unread(t) == fault[FullPath(t)] \in {"open", "read"}

\* what the whole content of the lockfile of task t holds for the database
HeldBy(t) ==
    LET c == Content(FullPath(t))
    IN  IF t.Lockfile = "package-lock.json" THEN Held(c.deps) \cup Held(c.pkgs)
        ELSE Held(c.cands)

\* C26: every ScanResult returned has a non-empty list of recognized
\* lockfile names without repetition, every infected package has a
\* non-empty name and version that IsInfected holds of, and every one is
\* held by a lockfile of the directory that could be read.
C26_ResultsWellFormed ==
    Done =>
        \A i \in DOMAIN scanResults :
            LET r == scanResults[i]
                readable == {k \in DOMAIN tasks :
                                tasks[k].Dir = r.ProjectPath /\ ~Unread(tasks[k])}
            IN  /\ r.Lockfiles # <<>>
                /\ Range(r.Lockfiles) \subseteq LockfileNames
                /\ \A a, b \in DOMAIN r.Lockfiles : r.Lockfiles[a] = r.Lockfiles[b] => a = b
                /\ \A p \in Range(r.InfectedPackages) :
                      /\ p.PackageName # <<>>
                      /\ p.Version # <<>>
                      /\ IsInfected(p.PackageName, p.Version)
                      /\ p \in UNION {HeldBy(tasks[k]) : k \in readable}

(***************************************************************************)
(* Properties of the task collector                                        *)
(***************************************************************************)
\* the directories above path, nearest last
Ancestors(path) == {SubSeq(path, 1, k) : k \in 1..(Len(path) - 1)}

\* C10: with an exclusion pattern, no task is emitted for a lockfile whose
\* path matches the pattern or that lies under a directory whose path
\* matches it, whether the target is a directory or a file.
C10_ExcludedNeverCollected ==
    (pc # "collect" /\ cfg.ExcludeRegex # NoRegex) =>
        \A i \in DOMAIN tasks :
            /\ ~MatchString(cfg.ExcludeRegex, FullPath(tasks[i]))
            /\ \A d \in Ancestors(FullPath(tasks[i])) : ~MatchString(cfg.ExcludeRegex, d)

\* the target paths of the scan, and those that name a directory
Targets == Range(cfg.TargetPaths)

DirTargets == {t \in Targets : Lookup(t) = "dir"}

Collected == pc # "collect"

\* C11: without the recursive flag, every task comes from a target itself:
\* its Dir is a directory target, or it is the task of a file target; no
\* lockfile of a subdirectory of a target is collected, whatever the include
\* flags are.
C11_NonRecursiveRootOnly ==
    (Collected /\ ~cfg.Recursive) =>
        \A i \in DOMAIN tasks :
            \/ tasks[i].Dir \in DirTargets
            \/ \E t \in Targets \ DirTargets :
                  /\ Lookup(t) = "file"
                  /\ Join(tasks[i].Dir, tasks[i].Lockfile) = t

\* the directory r, which has lockfiles of its own and in its
\* subdirectories, was collected without the recursive flag and with both
\* include flags set: its own two lockfiles are the tasks
C11_Witness ==
    /\ Collected
    /\ ~cfg.Recursive /\ cfg.IncludeGit /\ cfg.IncludeNodeModules
    /\ cfg.ExcludeRegex = NoRegex
    /\ cfg.TargetPaths = << <<"r">> >>
    /\ Len(tasks) = 2
    /\ \A i \in DOMAIN tasks : tasks[i].Dir = <<"r">>

RECURSIVE FilesUnder(_)
\* the files at and below a directory that a walk can reach
FilesUnder(dir) ==
    IF dir \in Unreadable THEN {}
    ELSE UNION {IF Kids(dir)[k].dir THEN FilesUnder(Join(dir, Kids(dir)[k].name))
                ELSE {Join(dir, Kids(dir)[k].name)} : k \in DOMAIN Kids(dir)}

\* a directory name the walk skips under the flags of the scan: .git or
\* node_modules in any letter case, with the matching include flag unset
SkippedName(name) ==
    \/ ~cfg.IncludeGit /\ Fold(name) = ".git"
    \/ ~cfg.IncludeNodeModules /\ Fold(name) = "node_modules"

\* the names of the directories of a walk rooted at t that lie on the way to
\* path: t itself and every directory between t and path
WalkedNames(t, path) == {path[k] : k \in Len(t)..Len(path)}

IsPrefix(t, path) == Len(t) <= Len(path) /\ SubSeq(path, 1, Len(t)) = t

C13_OtherCaseNotSkipped ==
    (/\ Collected
     /\ cfg.Recursive /\ ~cfg.IncludeNodeModules
     /\ cfg.ExcludeRegex = NoRegex
     /\ <<"r">> \in Targets) =>
        Task(<<"r", "Node_Modules">>, "package-lock.json") \in Range(tasks)

\* the target paths that name a regular file, by position
FileTargetAt == {k \in DOMAIN cfg.TargetPaths : Lookup(cfg.TargetPaths[k]) = "file"}

\* C15: when every target names a regular file, the tasks are, in the order
\* of the targets, one task (containing directory, base name) for each
\* target whose base name is package-lock.json, yarn.lock or pnpm-lock.yaml,
\* nothing for the others, and there is no error; so no other file of these
\* directories is collected.
C15_FileTargetOneTask ==
    (Collected /\ FileTargetAt = DOMAIN cfg.TargetPaths) =>
        LET hits == {k \in FileTargetAt : Base(cfg.TargetPaths[k]) \in LockfileNames}
        IN  /\ Len(tasks) = Cardinality(hits)
            /\ \A i \in DOMAIN tasks :
                  \E k \in hits :
                      /\ Cardinality({j \in hits : j < k}) = i - 1
                      /\ tasks[i].Dir = Dir(cfg.TargetPaths[k])
                      /\ tasks[i].Lockfile = Base(cfg.TargetPaths[k])
            /\ errs = <<>>

\* the file r/package-lock.json, which lies beside r/yarn.lock, and the file
\* r/README.md were the targets: one task
C15_Witness ==
    /\ Collected
    /\ cfg.TargetPaths = << <<"r", "README.md">>, <<"r", "package-lock.json">> >>
    /\ tasks = << Task(<<"r">>, "package-lock.json") >>
    /\ errs = <<>>

(***************************************************************************)
(* Properties of the program                                               *)
(***************************************************************************)
Exited == rpc = "exited"

\* C16: when db.Load fails, ExecuteScan is never called: no task is
\* collected, no worker runs, nothing is parsed or returned, no report is
\* rendered, and the process has exited with a non-zero code.
C16_NoScanWithoutDatabase ==
    loadErr \notin {"none", "nil"} =>
        /\ Exited
        /\ exitCode # 0 /\ exitCode # -1
        /\ pc = "idle"
        /\ tasks = <<>>
        /\ recvCount = <<>>
        /\ \A w \in Workers : wpc[w] = "idle"
        /\ scanResults = <<>>
        /\ rendered = "none"

\* the database file was missing in a run whose target holds lockfiles:
\* the process exited with code 1
C16_Witness ==
    /\ Exited
    /\ loadErr = "database not found"
    /\ exitCode = 1
    /\ flagDatabase = "missing.txt"
    /\ cfg.TargetPaths = << <<"r", "sub">> >>

\* C18: after a report was rendered the exit code is 1 when no project was
\* found or some project is infected and 0 otherwise, and the JSON and the
\* CLI renderer select the same code for the summary.
C18_ExitCodeOfReport ==
    rendered # "none" =>
        /\ Exited
        /\ exitCode \in {0, 1}
        /\ exitCode # 0 <=>
              \/ Len(scanResults) = 0
              \/ \E i \in DOMAIN scanResults : Len(scanResults[i].InfectedPackages) > 0
        /\ jsonExitCode(summary) = cliExitCode(summary)

\* the CLI report of a scan that found no lockfile was rendered: exit code 1
C18_Witness ==
    /\ rendered = "cli"
    /\ loadErr = "nil"
    /\ Len(scanResults) = 0
    /\ exitCode = 1

\* C19: the summary of a rendered report counts all projects returned, the
\* infected ones and the infected packages, whatever the full-report flag;
\* the results listed are the infected projects without the flag and all
\* projects with it, each once.
C19_SummaryOverAllProjects ==
    rendered # "none" =>
        LET infected == {i \in DOMAIN scanResults :
                            Len(scanResults[i].InfectedPackages) > 0}
            listed == IF flagFullReport THEN DOMAIN scanResults ELSE infected
        IN  /\ summary.TotalProjects = Len(scanResults)
            /\ summary.InfectedProjects = Cardinality(infected)
            /\ summary.TotalInfectedPackages
                  = Cardinality(UNION {{<<i, j>> : j \in DOMAIN scanResults[i].InfectedPackages} :
                                         i \in DOMAIN scanResults})
            /\ Len(displayResults) = Cardinality(listed)
            /\ Range(displayResults) = {scanResults[i] : i \in listed}

\* a report without full-report of three projects, one of them clean: the
\* summary counts three, the list holds the two infected ones
C19_Witness ==
    /\ rendered # "none"
    /\ ~flagFullReport
    /\ summary.TotalProjects = 3
    /\ summary.InfectedProjects = 2
    /\ summary.TotalInfectedPackages = 3
    /\ Len(displayResults) = 2

\* task i is a package-lock.json whose content is not valid JSON
Malformed(i) ==
    /\ tasks[i].Lockfile = "package-lock.json"
    /\ fault[FullPath(tasks[i])] = "syntax"

\* C20: the parse of a package-lock.json that is not valid JSON returns an
\* error and no finding; the scan that holds such a file returns a non-nil
\* error, and the run exits with code 1 without a report.
C20_MalformedJsonIsHardError ==
    /\ [][\A w \in Workers :
            (wpc[w] = "parse" /\ Malformed(wjob[w]) /\ wpc'[w] # "parse") =>
                /\ wpc'[w] = "append"
                /\ wres'[w].Issues = <<>>]_vars
    /\ []((Done /\ \E i \in DOMAIN tasks : Malformed(i)) => retErr # <<>>)
    /\ []((Exited /\ \E i \in DOMAIN tasks : Malformed(i)) =>
              exitCode = 1 /\ rendered = "none")

\* a run over custom_exclude, whose package-lock.json names an infected
\* package but is not valid JSON, has exited with code 1
C20_Witness ==
    /\ Exited
    /\ exitCode = 1
    /\ loadErr = "nil"
    /\ loadedPath = "db.txt"
    /\ cfg.TargetPaths = << <<"r", "custom_exclude">> >>
    /\ Malformed(1)
    /\ <<"parse", <<"r", "custom_exclude", "package-lock.json">> >> \in Range(retErr)
    /\ ResultFor(<<"r", "custom_exclude">>).InfectedPackages = <<>>

Overlapped ==
    {tasks[i].Dir : i \in {k \in DOMAIN tasks : Cardinality(TaskAt(tasks[k])) > 1}}

\* the distinct tasks of directory d: what listing every target once collects
OnceTasks(d) == {t \in Range(tasks) : t.Dir = d}

\* C29: when a lockfile was collected by more than one task, every one of
\* these tasks was received and aggregated once, and the directory still has
\* a single ScanResult, in which every lockfile name and every infected pair
\* is listed once, with the names and the pairs that the distinct tasks of
\* the directory give.
C29_OverlapSameContent ==
    Done =>
        \A d \in Overlapped :
            LET mine == {i \in DOMAIN scanResults : scanResults[i].ProjectPath = d}
                lf == ResultFor(d).Lockfiles
                ip == ResultFor(d).InfectedPackages
            IN  /\ \A k \in DOMAIN tasks :
                      tasks[k].Dir = d => recvCount[k] = 1 /\ aggCount[k] = 1
                /\ Cardinality(mine) = 1
                /\ Len(lf) = Cardinality({t.Lockfile : t \in OnceTasks(d)})
                /\ Range(lf) = {t.Lockfile : t \in OnceTasks(d)}
                /\ Len(ip) = Cardinality(UNION {FindingsOf(t) : t \in OnceTasks(d)})
                /\ Range(ip) = UNION {FindingsOf(t) : t \in OnceTasks(d)}

\* a scan that collected one lockfile with findings twice has returned the
\* single project of that lockfile
C29_Witness ==
    /\ Done
    /\ Len(tasks) = 2
    /\ tasks[1] = tasks[2]
    /\ recvCount = <<1, 1>>
    /\ Len(scanResults) = 1
    /\ Len(scanResults[1].Lockfiles) = 1
    /\ Len(scanResults[1].InfectedPackages) > 0

\* the exclusion pattern of the scan matches path or a directory above it
PatternHits(path) ==
    /\ cfg.ExcludeRegex # NoRegex
    /\ \E d \in Ancestors(path) \cup {path} : MatchString(cfg.ExcludeRegex, d)

\* C30: every task comes from a file target or from the walk of a directory
\* target whose own name is not .git or node_modules (in any letter case)
\* with the matching include flag unset, so the walk of a target so named
\* emits nothing, its own lockfiles included; and every recognized lockfile
\* named as a file target that no exclusion pattern hits is a task, also
\* when it lies inside a directory so named.
C30_SkipRuleOnRootNotOnFile ==
    Collected =>
        /\ \A i \in DOMAIN tasks :
              \E t \in Targets :
                  \/ Lookup(t) = "file" /\ FullPath(tasks[i]) = t
                  \/ /\ Lookup(t) = "dir"
                     /\ IsPrefix(t, tasks[i].Dir)
                     /\ ~SkippedName(Base(t))
        /\ \A t \in Targets :
              (Lookup(t) = "file" /\ Base(t) \in LockfileNames /\ ~PatternHits(t))
                  => Task(Dir(t), Base(t)) \in Range(tasks)

\* with both include flags unset, the directory .git, which has a lockfile
\* of its own, and the lockfile inside node_modules were the targets: the
\* only task is that of the file target
C30_Witness ==
    /\ Collected
    /\ ~cfg.IncludeGit /\ ~cfg.IncludeNodeModules
    /\ cfg.ExcludeRegex = NoRegex
    /\ cfg.TargetPaths = << <<"r", ".git">>, <<"r", "node_modules", "yarn.lock">> >>
    /\ \E k \in DOMAIN Kids(<<"r", ".git">>) : Kids(<<"r", ".git">>)[k].name = "yarn.lock"
    /\ tasks = << Task(<<"r", "node_modules">>, "yarn.lock") >>
    /\ errs = <<>>

(***************************************************************************)
(* Properties of the parsers on the text of a lockfile                     *)
(***************************************************************************)
\* the parser of the kind has returned
TextDone(kind) == lockKind = kind /\ parsed.err # "pending"

\* what the database holds of the pair (name, version)
Reported(name, version) ==
    IF name \in DOMAIN entries /\ version \in entries[name]
    THEN <<V(name, version)>> ELSE <<>>

\* the key up to its parenthetical suffix
Stem(k) ==
    LET at == {i \in 1..Len(k) : k[i] = "("}
    IN  IF at = {} THEN k ELSE SubSeq(k, 1, (CHOOSE i \in at : \A j \in at : i <= j) - 1)

\* the last "/" or "@" of k is its first or its last character
LastSeparatorAtEdge(k) ==
    LET at == {i \in 1..Len(k) : k[i] \in {"/", "@"}}
    IN  at # {} /\ (CHOOSE i \in at : \A j \in at : i >= j) \in {1, Len(k)}

\* C22: from an indented line whose key is /name@version, name@version or
\* /name/version, the name scoped or not, the key quoted or not and with or
\* without a parenthetical suffix, the pnpm parser takes the one candidate
\* (name, version), the scope in the name, and reports it exactly when the
\* database holds the pair; and a key whose last "/" or "@" before any
\* parenthetical suffix is its first or last character gives no candidate.
C22_CompositeKeysExtracted ==
    TextDone("pnpm") =>
        /\ \A q \in KeyQuotes, sh \in KeyShapes, nm \in TextNames,
              ver \in TextVersions, tl \in KeyTails :
              lockLines = <<PnpmLine(q, PnpmKey(sh, nm, ver, tl))>> =>
                  /\ parsed.cands = <<V(nm, ver)>>
                  /\ parsed.issues = Reported(nm, ver)
                  /\ parsed.err = "nil"
        /\ \A k \in ShortKeys :
              (lockLines = <<PnpmLine(<<>>, k)>> /\ LastSeparatorAtEdge(Stem(k)))
                  => parsed.cands = <<>> /\ parsed.issues = <<>>

\* the quoted line of a scoped package with a parenthetical suffix that
\* holds an "@" was parsed, and its pair, which the database holds, reported
C22_Witness ==
    /\ TextDone("pnpm")
    /\ lockLines = << PnpmLine(<<"'">>,
                        PnpmKey([slash |-> <<"/">>, sep |-> "@"], PkgScoped, <<"1">>,
                                <<"(", "b", "@", ")">>)) >>
    /\ parsed.issues = <<V(PkgScoped, <<"1">>)>>

\* C24: from a key name/version_suffix or name@version_suffix parsePnpmKey
\* returns (name, version), whatever the suffix holds, "@" and "/" included.
C24_UnderscoreSuffixRemoved ==
    TextDone("key") =>
        \A nm \in TextNames, sep \in {"/", "@"}, ver \in TextVersions,
           sfx \in PeerSuffixes :
            lockLines = <<UnderscoreKey(nm, sep, ver, sfx)>> =>
                parsed.cands = <<V(nm, ver)>>

\* C21: a yarn.lock or pnpm-lock.yaml that can be read gives no parse error,
\* whatever its content.
C21_ReadableTextNeverFails ==
    (\/ TextDone("pnpm")
     \/ TextDone("yarn")) => parsed.err = "nil"

\* the specifier text before its last "@"
BeforeLastAt(spec) == SubSeq(spec, 1, LastIndexAny(spec, {"@"}))

\* the specifier text before its first "@" that is not its first character
BeforeFirstInnerAt(spec) ==
    LET at == {i \in 2..Len(spec) : spec[i] = "@"}
    IN  SubSeq(spec, 1, (CHOOSE i \in at : \A j \in at : i <= j) - 1)

\* C25 as stated: a block whose header is name@range, quoted or not, alone
\* or followed by a second specifier, and whose next line is the version
\* field in either form, gives exactly one candidate, named by the text of
\* the specifier before its last "@".
C25_NameBeforeLastAt ==
    TextDone("yarn") =>
        \A q \in YarnQuotes, nm \in TextNames, rg \in YarnRanges, more \in BOOLEAN,
           form \in {"quoted", "colon"}, v \in TextVersions :
            lockLines = YarnBlock(q, nm, rg, more, form, v) =>
                LET name == BeforeLastAt(nm \o <<"@">> \o rg)
                IN  /\ parsed.cands = <<V(name, v)>>
                    /\ parsed.issues = Reported(name, v)

\* C25, amended: such a block gives exactly one candidate, named by the text
\* of the specifier before its first "@" that is not the leading scope mark,
\* with the version of the version field, and it is reported exactly when
\* the database holds the pair.
C25_NameBeforeFirstInnerAt ==
    TextDone("yarn") =>
        \A q \in YarnQuotes, nm \in TextNames, rg \in YarnRanges, more \in BOOLEAN,
           form \in {"quoted", "colon"}, v \in TextVersions :
            lockLines = YarnBlock(q, nm, rg, more, form, v) =>
                LET name == BeforeFirstInnerAt(nm \o <<"@">> \o rg)
                IN  /\ parsed.cands = <<V(name, v)>>
                    /\ parsed.issues = Reported(name, v)
                    /\ parsed.err = "nil"

\* the quoted block of a scoped package whose range holds an "@", with a
\* second specifier and the version field of yarn berry, was parsed, and
\* the pair of the scoped package, which the database holds, reported
C25_Witness ==
    /\ TextDone("yarn")
    /\ lockLines = YarnBlock(<<"\"">>, PkgScoped, <<"n", ":", "b", "@", "1">>, TRUE,
                             "colon", <<"1">>)
    /\ parsed.issues = <<V(PkgScoped, <<"1">>)>>

====
